---- MODULE Spec2Model ----
(***************************************************************************)
(* Model of luziadev/mcp-server.                                           *)
(*                                                                         *)
(* Spec      : the HTTP bootstrap (index.ts): the session map, the /mcp    *)
(*             handler with its await on mcpServer.connect, and the        *)
(*             session-initialized / session-closed callbacks.             *)
(* ToolSpec  : one tool call at a time (get_ticker, get_tickers,           *)
(*             get_history, get_exchanges, get_markets) through zod        *)
(*             validation, the API client and the shared error handler.    *)
(***************************************************************************)
EXTENDS Integers, Sequences, FiniteSets, TLC

VARIABLES
    sessions,        \* Map<string, transport>: session id -> transport
    nTransports,     \* transports constructed so far (they are 1..nTransports)
    tSessionId,      \* transport -> the id it generated (NoSessionId before initialize)
    tClosed,         \* transport -> TRUE once it was closed
    serverTransport, \* sequence: protocol-server instance i is connected to serverTransport[i]
    uuidCount,       \* crypto.randomUUID() calls so far
    req,             \* in-flight /mcp handler invocations, one record per slot
    closedIds,       \* history: ids passed to onsessionclosed
    lastHandled,     \* history: the /mcp request whose handling completed last
    toolPc,          \* tool call: "idle" | "fetching" | "done"
    toolCall,        \* tool call: [tool, args]
    pending,         \* tool call: the upstream request in flight
    upstreamLog,     \* tool call: upstream requests issued during the current call
    upstreamResponse,\* tool call: what the upstream answered to the pending request
    toolResult,      \* tool call: the ToolResult returned
    thrown,          \* tool call: an error reached the handler's catch block
    caught,          \* tool call: the error the handler's catch block received, and
                     \* whether it went through handleApiError
    nCalls,          \* tool calls started so far
    rpc,             \* protocol request being served: method, name, uri, routed handler
    compare,         \* compare_exchanges: the exchange list and the ticker results so far
    client,          \* api-client module: apiClientInstance and the clients constructed
    norm,            \* symbol normalization: a symbol, its URL form, and the form read back
    calc             \* prompt builders: the data a builder was given and what it built

httpVars == <<sessions, nTransports, tSessionId, tClosed, serverTransport,
              uuidCount, req, closedIds, lastHandled>>
toolVars == <<toolPc, toolCall, pending, upstreamLog, upstreamResponse, toolResult, thrown, caught, nCalls>>
rpcVars == <<rpc, compare>>
vars == <<httpVars, toolVars, rpcVars, client, norm, calc>>

----------------------------------------------------------------------------
(* Bounds *)

MaxTransports == 2
MaxInFlight == 2
MaxCalls == 1
MaxSymbolLen == 3
MaxClients == 2
MaxTickers == 3
MaxPrice == 3
MaxCandles == 3

----------------------------------------------------------------------------
(* HTTP bootstrap: session map *)

\* c.req.header('mcp-session-id') when the header is not sent: undefined
Omitted == 0
\* an empty header value: falsy like undefined
EmptyHeader == -1
\* a header value that no transport ever generated
BogusId == -2
\* transport.sessionId before initialization
NoSessionId == 0
\* `transport` variable of the handler while undefined
NoTransport == 0

Transports == 1..MaxTransports
Slots == 1..MaxInFlight

IdleReq == [pc |-> "idle", header |-> Omitted, kind |-> "none",
            transport |-> NoTransport, hit |-> FALSE]

\* sessionIdGenerator: () => crypto.randomUUID(); n UUIDs were drawn before
RandomUUID_repeat(n) == 1
RandomUUID(n) == n + 1

\* sessions.set(key, value)
SessionsSet_all(m, key, value) == [k \in (DOMAIN m) \cup {key} |-> value]
SessionsSet(m, key, value) ==
    [k \in (DOMAIN m) \cup {key} |-> IF k = key THEN value ELSE m[k]]

\* sessions.delete(key)
SessionsDelete_clear(m, key) == [k \in {} |-> NoTransport]
SessionsDelete(m, key) == [k \in (DOMAIN m) \ {key} |-> m[k]]

\* let transport = sessionId ? sessions.get(sessionId) : undefined
LookupTransport_never(m, sessionId) == NoTransport
LookupTransport_fallback(m, sessionId) ==
    IF sessionId # Omitted /\ sessionId # EmptyHeader /\ sessionId \in DOMAIN m
    THEN m[sessionId]
    ELSE IF DOMAIN m # {} THEN m[CHOOSE k \in DOMAIN m : TRUE] ELSE NoTransport
LookupTransport(m, sessionId) ==
    IF sessionId # Omitted /\ sessionId # EmptyHeader /\ sessionId \in DOMAIN m
    THEN m[sessionId]
    ELSE NoTransport

\* the `transport` the onsessioninitialized closure of handler invocation r reads:
\* the handler's own local variable
ClosureTransport_shared(r) == nTransports
ClosureTransport(r) == req[r].transport

\* onsessioninitialized: if (transport) sessions.set(newSessionId, transport)
OnSessionInitialized(m, newSessionId, transport) ==
    IF transport # NoTransport THEN SessionsSet(m, newSessionId, transport) ELSE m

\* onsessionclosed: sessions.delete(closedSessionId)
OnSessionClosed(m, closedSessionId) == SessionsDelete(m, closedSessionId)

\* header values a client can send: none, empty, garbage, or an id some
\* transport handed out earlier
Headers == {Omitted, EmptyHeader, BogusId} \cup (1..uuidCount)

HttpInit ==
    /\ sessions = [k \in {} |-> NoTransport]
    /\ nTransports = 0
    /\ tSessionId = [t \in Transports |-> NoSessionId]
    /\ tClosed = [t \in Transports |-> FALSE]
    /\ serverTransport = <<>>
    /\ uuidCount = 0
    /\ req = [r \in Slots |-> IdleReq]
    /\ closedIds = {}
    /\ lastHandled = [hit |-> FALSE, outcome |-> "none"]

\* app.all('/mcp'): from the start of the handler up to its first suspension.
\* Known session: the stored transport is taken and transport.handleRequest is
\* called.  Otherwise a transport is constructed, a protocol server is created
\* and mcpServer.connect(transport) is awaited.
McpRequest(r, header, kind) ==
    /\ req[r].pc = "idle"
    /\ LET found == LookupTransport(sessions, header) IN
       IF found # NoTransport
       THEN /\ req' = [req EXCEPT ![r] = [pc |-> "handling", header |-> header,
                                          kind |-> kind, transport |-> found,
                                          hit |-> TRUE]]
            /\ UNCHANGED <<nTransports, serverTransport>>
       ELSE /\ nTransports < MaxTransports
            /\ nTransports' = nTransports + 1
            /\ serverTransport' = Append(serverTransport, nTransports + 1)
            /\ req' = [req EXCEPT ![r] = [pc |-> "connecting", header |-> header,
                                          kind |-> kind, transport |-> nTransports + 1,
                                          hit |-> FALSE]]
    /\ UNCHANGED <<sessions, tSessionId, tClosed, uuidCount, closedIds, lastHandled>>

\* await mcpServer.connect(transport) resolves; transport.handleRequest is called
ConnectDone(r) ==
    /\ req[r].pc = "connecting"
    /\ req' = [req EXCEPT ![r].pc = "handling"]
    /\ UNCHANGED <<sessions, nTransports, tSessionId, tClosed, serverTransport,
                   uuidCount, closedIds, lastHandled>>

\* transport.handleRequest(c.req.raw): the transport processes the request and
\* fires the callbacks the handler registered on it.
\*   initialize : refused when the transport is already initialized; otherwise
\*                the transport draws its session id and calls onsessioninitialized
\*   delete     : needs an initialized transport and a header equal to its id;
\*                calls onsessionclosed(id) and closes the transport
\*   message    : same validation, no callback
HandleRequest(r) ==
    /\ req[r].pc = "handling"
    /\ LET t == req[r].transport
           valid == tSessionId[t] # NoSessionId /\ req[r].header = tSessionId[t]
           done(outcome) ==
               /\ req' = [req EXCEPT ![r] = IdleReq]
               /\ lastHandled' = [hit |-> req[r].hit, outcome |-> outcome]
       IN
       CASE req[r].kind = "initialize" /\ tSessionId[t] = NoSessionId ->
              LET id == RandomUUID(uuidCount) IN
              /\ uuidCount' = uuidCount + 1
              /\ tSessionId' = [tSessionId EXCEPT ![t] = id]
              /\ sessions' = OnSessionInitialized(sessions, id, ClosureTransport(r))
              /\ done("initialized")
              /\ UNCHANGED <<tClosed, closedIds>>
         [] req[r].kind = "delete" /\ valid ->
              /\ sessions' = OnSessionClosed(sessions, tSessionId[t])
              /\ closedIds' = closedIds \cup {tSessionId[t]}
              /\ tClosed' = [tClosed EXCEPT ![t] = TRUE]
              /\ done("closed")
              /\ UNCHANGED <<tSessionId, uuidCount>>
         [] req[r].kind = "message" /\ valid ->
              /\ done("handled")
              /\ UNCHANGED <<sessions, tSessionId, tClosed, uuidCount, closedIds>>
         [] OTHER ->
              /\ done("rejected")
              /\ UNCHANGED <<sessions, tSessionId, tClosed, uuidCount, closedIds>>
    /\ UNCHANGED <<nTransports, serverTransport>>

\* app.get('/health'): the body answered in the current state
Health_created == [status |-> "ok", activeSessions |-> nTransports]
Health == [status |-> "ok", activeSessions |-> Cardinality(DOMAIN sessions)]

\* app.get('/'): the tools and prompts lists of the body
Info ==
    [tools |-> {"get_ticker", "get_tickers", "get_exchanges", "get_markets"},
     prompts |-> {"analyze_price_movement", "compare_exchanges"}]

----------------------------------------------------------------------------
(* JavaScript values, strings and text *)

\* A JavaScript value: undefined, a string (a sequence of characters), a
\* number, or an array of strings.
Undef == [type |-> "undefined", s |-> <<>>, n |-> 0, a |-> <<>>]
Str(cs) == [type |-> "string", s |-> cs, n |-> 0, a |-> <<>>]
Num(k) == [type |-> "number", s |-> <<>>, n |-> k, a |-> <<>>]
Arr(items) == [type |-> "array", s |-> <<>>, n |-> 0, a |-> items]

\* JavaScript truthiness of a value: undefined, "" and 0 are falsy
Truthy(v) ==
    CASE v.type = "undefined" -> FALSE
      [] v.type = "string" -> v.s # <<>>
      [] v.type = "number" -> v.n # 0
      [] OTHER -> TRUE

\* a || b
OrElse(a, b) == IF Truthy(a) THEN a ELSE b

\* String.prototype.toLowerCase / toUpperCase, character by character
LowerChar(c) ==
    CASE c = "B" -> "b" [] c = "N" -> "n" [] c = "U" -> "u" [] c = "K" -> "k"
      [] c = "O" -> "o" [] c = "W" -> "w" [] OTHER -> c
UpperChar(c) ==
    CASE c = "b" -> "B" [] c = "n" -> "N" [] c = "u" -> "U" [] c = "k" -> "K"
      [] c = "o" -> "O" [] c = "w" -> "W" [] OTHER -> c
ToLowerCase(cs) == [i \in 1..Len(cs) |-> LowerChar(cs[i])]
ToUpperCase(cs) == [i \in 1..Len(cs) |-> UpperChar(cs[i])]

\* String.prototype.replace(from, to) with a string pattern: the first
\* occurrence only
RECURSIVE ReplaceFirst(_, _, _)
ReplaceFirst(cs, from, to) ==
    IF cs = <<>> THEN <<>>
    ELSE IF Head(cs) = from THEN <<to>> \o Tail(cs)
    ELSE <<Head(cs)>> \o ReplaceFirst(Tail(cs), from, to)

\* LuziaApiClient.symbolToUrl
SymbolToUrl_keep(symbol) == symbol
SymbolToUrl(symbol) == ReplaceFirst(symbol, "/", "-")

\* the resource reader's normalizedSymbol: symbol.replace('-', '/')
UrlToSymbol(symbol) == ReplaceFirst(symbol, "-", "/")

\* A text is a sequence of pieces: literal pieces of a template string and
\* interpolated values.
Lit(string) == [k |-> "lit", lit |-> string, v |-> Undef]
Val(value) == [k |-> "val", lit |-> "", v |-> value]
Contains(text, value) == \E i \in 1..Len(text) : text[i] = Val(value)

\* Array.prototype.map(f).join(', ') over messages: the messages in order
RECURSIVE Lits(_)
Lits(messages) ==
    IF messages = <<>> THEN <<>>
    ELSE <<Lit(Head(messages))>> \o Lits(Tail(messages))

----------------------------------------------------------------------------
(* zod schemas: each yields the messages of the issues it raises *)

\* z.string().min(min)
ZString(v, min) ==
    CASE v.type = "undefined" -> <<"Required">>
      [] v.type # "string" -> <<"Expected string, received other type">>
      [] Len(v.s) < min -> <<"String must contain at least 1 character(s)">>
      [] OTHER -> <<>>

\* z.number().min(lo).max(hi)
ZNumber_nomax(v, lo, hi) ==
    CASE v.type = "undefined" -> <<"Required">>
      [] v.type # "number" -> <<"Expected number, received other type">>
      [] v.n < lo -> <<"Number must be greater than or equal to min">>
      [] OTHER -> <<>>
ZNumber(v, lo, hi) ==
    CASE v.type = "undefined" -> <<"Required">>
      [] v.type # "number" -> <<"Expected number, received other type">>
      [] v.n < lo -> <<"Number must be greater than or equal to min">>
      [] v.n > hi -> <<"Number must be less than or equal to max">>
      [] OTHER -> <<>>

\* z.enum(values)
ZEnum(v, values) ==
    CASE v.type = "undefined" -> <<"Required">>
      [] v.type # "string" \/ v.s \notin values -> <<"Invalid enum value">>
      [] OTHER -> <<>>

\* z.array(z.string())
ZStringArray(v) ==
    CASE v.type = "undefined" -> <<"Required">>
      [] v.type # "array" -> <<"Expected array, received other type">>
      [] OTHER -> <<>>

\* schema.optional(): undefined passes
ZOptional(v, issues) == IF v.type = "undefined" THEN <<>> ELSE issues

\* schema.default(d): undefined is replaced by d
ZDefault_keep(v, d) == v
ZDefault(v, d) == IF v.type = "undefined" THEN d ELSE v

----------------------------------------------------------------------------
(* Errors *)

NoError == [kind |-> "none", status |-> 0, message |-> Undef, details |-> Undef,
            issues |-> <<>>]
\* z.ZodError with one issue per message
ZodError(issues) == [kind |-> "zod", status |-> 0, message |-> Undef,
                     details |-> Undef, issues |-> issues]
\* new ApiError(status, message, details)
ApiError(status, message, details) ==
    [kind |-> "api", status |-> status, message |-> message, details |-> details,
     issues |-> <<>>]
\* any other Error instance (TypeError, SyntaxError)
JsError(message) == [kind |-> "error", status |-> 0, message |-> Str(message),
                     details |-> Undef, issues |-> <<>>]

\* ApiError predicates
IsNotFound(e) == e.status = 404
IsAuthError(e) == e.status = 401 \/ e.status = 403
IsRateLimitError(e) == e.status = 429
IsUnavailable(e) == e.status = 503

\* ToolResult
Result(text, isError) == [text |-> text, isError |-> isError]

\* handleApiError
HandleApiError(error) ==
    CASE IsNotFound(error) ->
           Result(<<Lit("Not found: "), Val(OrElse(error.details, error.message))>>, TRUE)
      [] IsUnavailable(error) ->
           Result(<<Lit("Service unavailable: "),
                    Val(OrElse(error.details, error.message))>>, TRUE)
      [] IsRateLimitError(error) ->
           Result(<<Lit("Rate limit exceeded. Please try again later.")>>, TRUE)
      [] OTHER ->
           Result(<<Lit("API error: "), Val(OrElse(error.details, error.message))>>, TRUE)

\* handleToolError
HandleToolError_noflag(error, toolName) ==
    CASE error.kind = "zod" ->
           Result(<<Lit("Invalid input: ")>> \o Lits(error.issues), TRUE)
      [] error.kind = "api" -> HandleApiError(error)
      [] error.kind = "error" ->
           Result(<<Lit("Error in "), Lit(toolName), Lit(": "), Val(error.message)>>, FALSE)
      [] OTHER ->
           Result(<<Lit("Error in "), Lit(toolName), Lit(": "), Lit("Unknown error")>>, FALSE)
HandleToolError(error, toolName) ==
    CASE error.kind = "zod" ->
           Result(<<Lit("Invalid input: ")>> \o Lits(error.issues), TRUE)
      [] error.kind = "api" -> HandleApiError(error)
      [] error.kind = "error" ->
           Result(<<Lit("Error in "), Lit(toolName), Lit(": "), Val(error.message)>>, TRUE)
      [] OTHER ->
           Result(<<Lit("Error in "), Lit(toolName), Lit(": "), Lit("Unknown error")>>, TRUE)

\* the catch block of executeGetExchanges, which does not use handleToolError
GetExchangesCatch(error) ==
    IF error.kind = "api"
    THEN Result(<<Lit("API error: "), Val(OrElse(error.details, error.message))>>, TRUE)
    ELSE IF error.kind = "error"
    THEN Result(<<Lit("Error fetching exchanges: "), Val(error.message)>>, TRUE)
    ELSE Result(<<Lit("Error fetching exchanges: "), Lit("Unknown error")>>, TRUE)

----------------------------------------------------------------------------
(* Upstream responses and the API client *)

\* A response of the upstream API, or a failed fetch.  shape is what the body
\* parses to: "unparsable" (not JSON), "null" (JSON null), "object" (a JSON
\* object without the fields the caller reads), "empty" (the expected object
\* with zero results), "full" (the expected object with results),
\* "errorbody" ({error?, message?}).
Response(kind, status, statusText, shape, error, message) ==
    [kind |-> kind, status |-> status, statusText |-> statusText, shape |-> shape,
     error |-> error, message |-> message]

ErrorStatuses == {401, 403, 404, 429, 500, 503}
StatusTexts == {<<>>, <<"s">>}

NetworkFailure == Response("network", 0, <<>>, "unparsable", Undef, Undef)
OkResponses ==
    {Response("http", 200, <<"O","K">>, shape, Undef, Undef) :
        shape \in {"unparsable", "null", "object", "empty", "full"}}
ErrorResponses ==
    {Response("http", status, st, "errorbody", e, m) :
        status \in ErrorStatuses, st \in StatusTexts,
        e \in {Undef, Str(<<>>), Str(<<"e">>)}, m \in {Undef, Str(<<>>), Str(<<"m">>)}}
    \cup {Response("http", status, st, shape, Undef, Undef) :
        status \in ErrorStatuses, st \in StatusTexts, shape \in {"unparsable", "null"}}
Responses == {NetworkFailure} \cup OkResponses \cup ErrorResponses

\* response.ok
ResponseOk(response) == response.status >= 200 /\ response.status <= 299

\* no response yet
NoResponse == Response("none", 0, <<>>, "unparsable", Undef, Undef)

\* what an awaited call yields: a value, or a thrown error
Returned(value) == [threw |-> FALSE, value |-> value, error |-> NoError]
Threw(error) == [threw |-> TRUE, value |-> "none", error |-> error]

\* LuziaApiClient.request, from the response of fetch on
ClientRequest_nofallback(response) ==
    IF response.kind = "network" THEN Threw(JsError(<<"f">>))
    ELSE IF ~ResponseOk(response)
    THEN IF response.shape = "errorbody"
         THEN Threw(ApiError(response.status,
                             OrElse(response.error, Str(response.statusText)),
                             response.message))
         ELSE Threw(JsError(<<"j">>))
    ELSE IF response.shape = "unparsable" THEN Threw(JsError(<<"j">>))
    ELSE Returned(response.shape)
ClientRequest(response) ==
    IF response.kind = "network" THEN Threw(JsError(<<"f">>))
    ELSE IF ~ResponseOk(response)
    THEN IF response.shape = "errorbody"
         THEN Threw(ApiError(response.status,
                             OrElse(response.error, Str(response.statusText)),
                             response.message))
         ELSE Threw(ApiError(response.status, Str(response.statusText), Undef))
    ELSE IF response.shape = "unparsable" THEN Threw(JsError(<<"j">>))
    ELSE Returned(response.shape)

\* LuziaApiClient.getTicker: a 404 becomes null, anything else is rethrown
GetTicker_rethrow(response) == ClientRequest(response)
GetTicker_swallow(response) ==
    LET r == ClientRequest(response) IN
    IF r.threw /\ r.error.kind = "api" THEN Returned("null") ELSE r
GetTicker(response) ==
    LET r == ClientRequest(response) IN
    IF r.threw /\ r.error.kind = "api" /\ IsNotFound(r.error)
    THEN Returned("null")
    ELSE r

\* LuziaApiClient.getExchanges: response.exchanges
GetExchanges(response) ==
    LET r == ClientRequest(response) IN
    IF r.threw THEN r
    ELSE IF r.value = "null" THEN Threw(JsError(<<"t">>))
    ELSE IF r.value = "object" THEN Returned("undefined")
    ELSE r

\* an upstream request as built by LuziaApiClient.request: path, path
\* parameters, query parameters (undefined ones are not sent) and whether the
\* Authorization header is set
UpstreamRequest(endpoint, exchange, symbol, auth, query) ==
    [endpoint |-> endpoint, exchange |-> exchange, symbol |-> symbol,
     auth |-> auth, query |-> query]
Query(limit, quoteOrInterval, symbols, active) ==
    [limit |-> limit, filter |-> quoteOrInterval, symbols |-> symbols,
     active |-> active]
NoQuery == Query(Undef, Undef, Undef, Undef)

----------------------------------------------------------------------------
(* The API client singleton *)

\* apiClientInstance = null
NoClient == 0

\* env.api.url and env.api.key, fixed when the configuration module is loaded
EnvApiUrl == <<"h", "/">>
EnvApiKey == <<"k">>

\* new LuziaApiClient(baseUrl, apiKey): this.baseUrl = baseUrl.replace(/\/$/, '')
NewClient(baseUrl, apiKey) ==
    [baseUrl |-> IF baseUrl # <<>> /\ baseUrl[Len(baseUrl)] = "/"
                 THEN SubSeq(baseUrl, 1, Len(baseUrl) - 1) ELSE baseUrl,
     apiKey |-> apiKey]

\* getApiClient: the module state after the call
GetApiClient_always(c) ==
    [c EXCEPT !.instance = Len(c.configs) + 1,
              !.configs = Append(c.configs, NewClient(EnvApiUrl, EnvApiKey)),
              !.returned = c.returned \cup {Len(c.configs) + 1},
              !.built = c.built + 1]
GetApiClient(c) ==
    IF c.instance = NoClient
    THEN [c EXCEPT !.instance = Len(c.configs) + 1,
                   !.configs = Append(c.configs, NewClient(EnvApiUrl, EnvApiKey)),
                   !.returned = c.returned \cup {Len(c.configs) + 1},
                   !.built = c.built + 1]
    ELSE [c EXCEPT !.returned = c.returned \cup {c.instance}]

\* a call of getApiClient can be modelled while fewer than MaxClients clients exist
CanGetApiClient == client.instance # NoClient \/ Len(client.configs) < MaxClients

----------------------------------------------------------------------------
(* Tool handlers *)

LimitMin == 1
TickersLimitMax == 50
TickersLimitDefault == 20
MarketsLimitMax == 100
MarketsLimitDefault == 50
HistoryLimitMax == 500

IntervalEnum == {<<"1","m">>, <<"5","m">>, <<"1","5","m">>, <<"1","h">>,
                 <<"4","h">>, <<"1","d">>}

\* request.params.arguments: absent, or an object with these properties
Args(present, exchange, symbol, quote, limit, interval, symbols) ==
    [present |-> present, exchange |-> exchange, symbol |-> symbol, quote |-> quote,
     limit |-> limit, interval |-> interval, symbols |-> symbols]
NoArgs == Args(FALSE, Undef, Undef, Undef, Undef, Undef, Undef)

ExchangeVals == {Undef, Str(<<>>), Str(<<"B","n">>), Num(7)}
SymbolVals == {Undef, Str(<<>>), Str(<<"b","/","u">>), Num(7)}
QuoteVals == {Undef, Str(<<>>), Str(<<"u">>)}
LimitVals == {Undef, Str(<<"5">>)}
             \cup {Num(k) : k \in {0, 1, 20, 50, 51, 100, 101, 500, 501}}
IntervalVals == {Undef, Str(<<"1","h">>), Str(<<"4","h">>), Str(<<"2","h">>)}
SymbolsVals == {Undef, Arr(<<>>), Arr(<< <<"b","/","u">> >>), Str(<<"b">>)}

GetTickerArgs ==
    {NoArgs} \cup {Args(TRUE, e, sy, Undef, Undef, Undef, Undef) :
                      e \in ExchangeVals, sy \in SymbolVals}
GetTickersArgs ==
    {NoArgs} \cup {Args(TRUE, e, Undef, Undef, l, Undef, sys) :
                      e \in ExchangeVals, l \in LimitVals, sys \in SymbolsVals}
GetHistoryArgs ==
    {NoArgs} \cup {Args(TRUE, e, sy, Undef, l, i, Undef) :
                      e \in ExchangeVals, sy \in SymbolVals, l \in LimitVals,
                      i \in IntervalVals}
GetMarketsArgs ==
    {NoArgs} \cup {Args(TRUE, e, Undef, q, l, Undef, Undef) :
                      e \in ExchangeVals, q \in QuoteVals, l \in LimitVals}

\* inputSchema.parse(args) of each tool: the issues raised
ParseGetTicker(args) ==
    IF ~args.present THEN <<"Required">>
    ELSE ZString(args.exchange, 1) \o ZString(args.symbol, 1)
ParseGetTickers(args) ==
    IF ~args.present THEN <<"Required">>
    ELSE ZOptional(args.exchange, ZString(args.exchange, 1))
         \o ZOptional(args.symbols, ZStringArray(args.symbols))
         \o ZOptional(args.limit, ZNumber(args.limit, LimitMin, TickersLimitMax))
ParseGetHistory(args) ==
    IF ~args.present THEN <<"Required">>
    ELSE ZString(args.exchange, 1) \o ZString(args.symbol, 1)
         \o ZOptional(args.interval, ZEnum(args.interval, IntervalEnum))
         \o ZOptional(args.limit, ZNumber(args.limit, LimitMin, HistoryLimitMax))
ParseGetMarkets(args) ==
    IF ~args.present THEN <<"Required">>
    ELSE ZString(args.exchange, 1)
         \o ZOptional(args.quote, ZString(args.quote, 1))
         \o ZOptional(args.limit, ZNumber(args.limit, LimitMin, MarketsLimitMax))

\* the upstream request each API client method builds
GetTickerRequest(exchange, symbol) ==
    UpstreamRequest("/v1/ticker", Str(ToLowerCase(exchange)), Str(SymbolToUrl(symbol)),
                    TRUE, NoQuery)
GetTickersFilteredRequest(exchange, symbols, limit) ==
    UpstreamRequest("/v1/tickers",
        IF Truthy(exchange) THEN Str(ToLowerCase(exchange.s)) ELSE Undef,
        Undef, TRUE,
        Query(limit, Undef,
              IF symbols.type = "array" /\ Len(symbols.a) > 0
              THEN Arr([i \in 1..Len(symbols.a) |->
                           SymbolToUrl(ToUpperCase(symbols.a[i]))])
              ELSE Undef,
              Undef))
GetHistoryRequest(exchange, symbol, interval, limit) ==
    UpstreamRequest("/v1/history", Str(ToLowerCase(exchange)), Str(SymbolToUrl(symbol)),
                    TRUE, Query(limit, interval, Undef, Undef))
GetExchangesRequest_auth == UpstreamRequest("/v1/exchanges", Undef, Undef, TRUE, NoQuery)
GetExchangesRequest ==
    UpstreamRequest("/v1/exchanges", Undef, Undef, FALSE, NoQuery)
GetMarketsRequest(exchange, quote, limit) ==
    UpstreamRequest("/v1/markets", Str(ToLowerCase(exchange)), Undef, TRUE,
        Query(limit, IF Truthy(quote) THEN Str(ToUpperCase(quote.s)) ELSE Undef,
              Undef, Str(<<"t","r","u","e">>)))

NoRequest == UpstreamRequest("none", Undef, Undef, FALSE, NoQuery)

\* what a handler invocation ends with: the ToolResult, whether its catch
\* block ran, the error the catch block received and whether that error was
\* rendered by handleApiError
Outcome(result, error, rendered) ==
    [result |-> result, thrown |-> error.kind # "none", error |-> error,
     rendered |-> rendered]
Success(text) == Outcome(Result(text, FALSE), NoError, FALSE)
\* catch (error) { return handleToolError(error, toolName) }
CatchWithHandler(error, toolName) ==
    Outcome(HandleToolError(error, toolName), error, error.kind = "api")

\* executeGetTicker: the result for an absent ticker
TickerNotFound_unflagged(symbol, exchange) ==
    Result(<<Lit("Ticker not found for "), Val(symbol), Lit(" on "), Val(exchange),
             Lit(". The symbol may not be available or the exchange may be temporarily unavailable.")>>,
           FALSE)
TickerNotFound(symbol, exchange) ==
    Result(<<Lit("Ticker not found for "), Val(symbol), Lit(" on "), Val(exchange),
             Lit(". The symbol may not be available or the exchange may be temporarily unavailable.")>>,
           TRUE)

\* executeGetTicker, after the upstream answered
FinishGetTicker(args, response) ==
    LET r == GetTicker(response) IN
    IF r.threw THEN CatchWithHandler(r.error, "get_ticker")
    ELSE IF r.value = "null"
    THEN Outcome(TickerNotFound(args.symbol, args.exchange), NoError, FALSE)
    ELSE IF r.value = "object" THEN CatchWithHandler(JsError(<<"t">>), "get_ticker")
    ELSE Success(<<Lit("## ticker")>>)

\* executeGetTickers: the result for zero tickers
NoTickersFound_flagged == Result(<<Lit("No tickers found matching the specified criteria.")>>, TRUE)
NoTickersFound == Result(<<Lit("No tickers found matching the specified criteria.")>>, FALSE)

\* executeGetTickers, after the upstream answered
FinishGetTickers(args, response) ==
    LET r == ClientRequest(response) IN
    IF r.threw THEN CatchWithHandler(r.error, "get_tickers")
    ELSE IF r.value \in {"null", "object"}
    THEN CatchWithHandler(JsError(<<"t">>), "get_tickers")
    ELSE IF r.value = "empty" THEN Outcome(NoTickersFound, NoError, FALSE)
    ELSE Success(<<Lit("## Cryptocurrency Tickers")>>)

\* executeGetHistory: the result for zero candles
NoCandles(symbol, exchange, interval) ==
    Result(<<Lit("No candle data found for "), Val(symbol), Lit(" on "), Val(exchange),
             Lit(" with interval "), Val(OrElse(interval, Str(<<"1","h">>))),
             Lit(". The symbol may not have history data yet or the time range may be empty.")>>,
           FALSE)

\* executeGetHistory, after the upstream answered
FinishGetHistory(args, response) ==
    LET r == ClientRequest(response) IN
    IF r.threw THEN CatchWithHandler(r.error, "get_history")
    ELSE IF r.value = "null" THEN CatchWithHandler(JsError(<<"t">>), "get_history")
    ELSE IF r.value \in {"object", "empty"}
    THEN Outcome(NoCandles(args.symbol, args.exchange, args.interval), NoError, FALSE)
    ELSE Success(<<Lit("## OHLCV")>>)

\* executeGetMarkets: the result for zero markets
NoMarkets(exchange, quote) ==
    Result(<<Lit("No markets found for exchange "), Val(exchange)>>
           \o (IF Truthy(quote) THEN <<Lit(" with quote currency "), Val(quote)>>
               ELSE <<>>),
           FALSE)

\* executeGetMarkets, after the upstream answered
FinishGetMarkets(args, response) ==
    LET r == ClientRequest(response) IN
    IF r.threw THEN CatchWithHandler(r.error, "get_markets")
    ELSE IF r.value \in {"null", "object"}
    THEN CatchWithHandler(JsError(<<"t">>), "get_markets")
    ELSE IF r.value = "empty" THEN Outcome(NoMarkets(args.exchange, args.quote), NoError, FALSE)
    ELSE Success(<<Lit("## Markets")>>)

\* executeGetExchanges, after the upstream answered
FinishGetExchanges(response) ==
    LET r == GetExchanges(response) IN
    IF r.threw THEN Outcome(GetExchangesCatch(r.error), r.error, FALSE)
    ELSE IF r.value = "undefined"
    THEN Outcome(GetExchangesCatch(JsError(<<"t">>)), JsError(<<"t">>), FALSE)
    ELSE Success(<<Lit("## Supported Cryptocurrency Exchanges")>>)

NoCaught == [error |-> NoError, rendered |-> FALSE]

\* no protocol request is being served: a handler was called directly
NoRpc == [method |-> "none", name |-> "none", uri |-> <<>>, routed |-> "none",
          listed |-> {}]

\* compare_exchanges is not running
NoCompare == [arg |-> Undef, exchangeList |-> <<>>, tickerResults |-> <<>>]

ToolIdle ==
    /\ toolPc = "idle"
    /\ toolCall = [tool |-> "none", args |-> NoArgs]
    /\ pending = NoRequest
    /\ upstreamLog = <<>>
    /\ upstreamResponse = NoResponse
    /\ toolResult = Result(<<>>, FALSE)
    /\ thrown = FALSE
    /\ caught = NoCaught
    /\ nCalls = 0

\* a handler is entered: arguments are validated; on a validation failure
\* the catch block returns at once, otherwise the one upstream request of
\* the tool is issued and the handler awaits it
Enter(tool, args, issues, request) ==
    /\ toolPc = "idle"
    /\ nCalls < MaxCalls
    /\ nCalls' = nCalls + 1
    /\ toolCall' = [tool |-> tool, args |-> args]
    /\ upstreamResponse' = NoResponse
    /\ IF issues # <<>>
       THEN LET o == CatchWithHandler(ZodError(issues), tool) IN
            /\ toolPc' = "done"
            /\ pending' = NoRequest
            /\ upstreamLog' = <<>>
            /\ toolResult' = o.result
            /\ thrown' = o.thrown
            /\ caught' = [error |-> o.error, rendered |-> o.rendered]
            /\ UNCHANGED client
       ELSE /\ CanGetApiClient
            /\ client' = GetApiClient(client)
            /\ toolPc' = "fetching"
            /\ pending' = request
            /\ upstreamLog' = <<request>>
            /\ toolResult' = Result(<<>>, FALSE)
            /\ thrown' = FALSE
            /\ caught' = NoCaught

\* the awaited API client call settles and the handler runs to its return
Leave(tool, response, o) ==
    /\ toolPc = "fetching"
    /\ toolCall.tool = tool
    /\ upstreamResponse' = response
    /\ toolPc' = "done"
    /\ toolResult' = o.result
    /\ thrown' = o.thrown
    /\ caught' = [error |-> o.error, rendered |-> o.rendered]
    /\ UNCHANGED <<toolCall, pending, upstreamLog, nCalls, client>>

\* the ToolResult is handed to the caller; the invocation is over
Return ==
    /\ toolPc = "done"
    /\ toolPc' = "idle"
    /\ toolCall' = [tool |-> "none", args |-> NoArgs]
    /\ pending' = NoRequest
    /\ upstreamLog' = <<>>
    /\ upstreamResponse' = NoResponse
    /\ toolResult' = Result(<<>>, FALSE)
    /\ thrown' = FALSE
    /\ caught' = NoCaught
    /\ rpc' = NoRpc
    /\ compare' = NoCompare
    /\ UNCHANGED <<nCalls, client>>

ExecuteGetTicker(args) ==
    Enter("get_ticker", args, ParseGetTicker(args),
          GetTickerRequest(ToLowerCase(args.exchange.s), ToUpperCase(args.symbol.s)))
ExecuteGetTickers(args) ==
    Enter("get_tickers", args, ParseGetTickers(args),
          GetTickersFilteredRequest(args.exchange, args.symbols,
                                    ZDefault(args.limit, Num(TickersLimitDefault))))
ExecuteGetHistory(args) ==
    Enter("get_history", args, ParseGetHistory(args),
          GetHistoryRequest(ToLowerCase(args.exchange.s), ToUpperCase(args.symbol.s),
                            args.interval, args.limit))
ExecuteGetMarkets(args) ==
    Enter("get_markets", args, ParseGetMarkets(args),
          GetMarketsRequest(args.exchange.s, args.quote,
                            ZDefault(args.limit, Num(MarketsLimitDefault))))
ExecuteGetExchanges ==
    Enter("get_exchanges", NoArgs, <<>>, GetExchangesRequest)

ResumeGetTicker(response) ==
    Leave("get_ticker", response, FinishGetTicker(toolCall.args, response))
ResumeGetTickers(response) ==
    Leave("get_tickers", response, FinishGetTickers(toolCall.args, response))
ResumeGetHistory(response) ==
    Leave("get_history", response, FinishGetHistory(toolCall.args, response))
ResumeGetMarkets(response) ==
    Leave("get_markets", response, FinishGetMarkets(toolCall.args, response))
ResumeGetExchanges(response) ==
    Leave("get_exchanges", response, FinishGetExchanges(response))

----------------------------------------------------------------------------
(* Symbol normalization *)

\* the client converts a symbol to its URL form
Normalize(symbol) ==
    /\ norm.pc = "idle"
    /\ norm' = [pc |-> "url", symbol |-> symbol, url |-> SymbolToUrl(symbol),
                back |-> <<>>]

\* the resource reader converts a URL form to a symbol
Denormalize ==
    /\ norm.pc = "url"
    /\ norm' = [norm EXCEPT !.pc = "back", !.back = UrlToSymbol(norm.url)]

\* the symbols: every string over B, U, / and - of at most MaxSymbolLen characters
SymbolNext ==
    \/ \E symbol \in UNION {[1..n -> {"B", "U", "/", "-"}] : n \in 0..MaxSymbolLen} :
           Normalize(symbol) /\ UNCHANGED <<httpVars, toolVars, rpcVars, client, calc>>
    \/ Denormalize /\ UNCHANGED <<httpVars, toolVars, rpcVars, client, calc>>

----------------------------------------------------------------------------
(* Protocol requests, prompts, resources, the client singleton *)

\* a handler returns without validating anything and without a client
Immediate(tool, args, result) ==
    /\ toolPc = "idle"
    /\ nCalls < MaxCalls
    /\ nCalls' = nCalls + 1
    /\ toolCall' = [tool |-> tool, args |-> args]
    /\ toolPc' = "done"
    /\ pending' = NoRequest
    /\ upstreamLog' = <<>>
    /\ upstreamResponse' = NoResponse
    /\ toolResult' = result
    /\ thrown' = FALSE
    /\ caught' = NoCaught
    /\ UNCHANGED client

\* the tools array of tools/index.ts
ToolNames == {"get_ticker", "get_tickers", "get_history", "get_exchanges", "get_markets"}

\* the switch of the CallTool handler: the handler a name is routed to
ToolRoute_all(name) ==
    CASE name = "get_ticker" -> "executeGetTicker"
      [] name = "get_tickers" -> "executeGetTickers"
      [] name = "get_exchanges" -> "executeGetExchanges"
      [] OTHER -> "executeGetMarkets"
ToolRoute(name) ==
    CASE name = "get_ticker" -> "executeGetTicker"
      [] name = "get_tickers" -> "executeGetTickers"
      [] name = "get_exchanges" -> "executeGetExchanges"
      [] name = "get_markets" -> "executeGetMarkets"
      [] OTHER -> "default"

\* the arguments sent with each name a call-tool request can carry
CallArgs(name) ==
    CASE name = "get_ticker" -> GetTickerArgs
      [] name = "get_tickers" -> GetTickersArgs
      [] name = "get_markets" -> GetMarketsArgs
      [] name = "get_history" ->
           {NoArgs, Args(TRUE, Str(<<"B","n">>), Str(<<"b","/","u">>), Undef, Undef,
                         Undef, Undef)}
      [] OTHER -> {NoArgs}

Request(method, name, routed) ==
    [NoRpc EXCEPT !.method = method, !.name = name, !.routed = routed]

\* CallTool request handler
CallTool(name, args) ==
    /\ rpc' = Request("tools/call", name, ToolRoute(name))
    /\ UNCHANGED compare
    /\ CASE ToolRoute(name) = "executeGetTicker" -> ExecuteGetTicker(args)
         [] ToolRoute(name) = "executeGetTickers" -> ExecuteGetTickers(args)
         [] ToolRoute(name) = "executeGetExchanges" -> ExecuteGetExchanges
         [] ToolRoute(name) = "executeGetMarkets" -> ExecuteGetMarkets(args)
         [] OTHER -> Immediate(name, args,
                                Result(<<Lit("Unknown tool: "), Lit(name)>>, TRUE))

\* ListTools request handler
ListTools_index ==
    /\ rpc' = [Request("tools/list", "none", "none") EXCEPT !.listed = ToolNames]
    /\ UNCHANGED compare
    /\ Immediate("none", NoArgs, Result(<<>>, FALSE))
ListTools ==
    /\ rpc' = [Request("tools/list", "none", "none") EXCEPT !.listed =
                  {"get_ticker", "get_tickers", "get_exchanges", "get_markets"}]
    /\ UNCHANGED compare
    /\ Immediate("none", NoArgs, Result(<<>>, FALSE))

----------------------------------------------------------------------------
(* Prompt builders *)

\* JavaScript null
Null == [type |-> "null", s |-> <<>>, n |-> 0, a |-> <<>>]

\* A number produced by arithmetic: the fraction n/d with d > 0 (k "finite"),
\* or one of "Infinity", "-Infinity", "NaN".  The operands are integers small
\* enough for every quotient compared below to be told apart exactly.
JsNumber(k, n, d) == [k |-> k, n |-> n, d |-> d]

\* a / b of two integers
Divide_truncating(a, b) == JsNumber("finite", a \div (IF b = 0 THEN 1 ELSE b), 1)
Divide(a, b) ==
    IF b # 0 THEN (IF b > 0 THEN JsNumber("finite", a, b) ELSE JsNumber("finite", -a, -b))
    ELSE IF a > 0 THEN JsNumber("Infinity", 0, 1)
    ELSE IF a < 0 THEN JsNumber("-Infinity", 0, 1)
    ELSE JsNumber("NaN", 0, 1)

\* a number handed to a formatter (formatPrice, formatVolume, toFixed) and
\* interpolated: the piece keeps the formatter and the number
Formatted(formatter, number) == [k |-> "val", lit |-> formatter, v |-> number]

\* prices.find((p) => p.price === price)?.exchange ?? 'unknown'
FindExchange_last(prices, price) ==
    LET hits == {i \in 1..Len(prices) : price.k = "finite" /\ prices[i].price = price.n}
    IN IF hits = {} THEN <<"u","n","k","n","o","w","n">>
       ELSE prices[CHOOSE i \in hits : \A j \in hits : i >= j].exchange
FindExchange(prices, price) ==
    LET hits == {i \in 1..Len(prices) : price.k = "finite" /\ prices[i].price = price.n}
    IN IF hits = {} THEN <<"u","n","k","n","o","w","n">>
       ELSE prices[CHOOSE i \in hits : \A j \in hits : i <= j].exchange

\* buildComparisonPrompt: the table, one row per ticker, then the spread
\* analysis over the tickers that are available and have a last price
BuildComparisonPrompt(symbol, tickers) ==
    LET availableTickers == SelectSeq(tickers, LAMBDA t : t.available /\ t.last # Null)
        prices == [i \in 1..Len(availableTickers) |->
                      [exchange |-> availableTickers[i].exchange,
                       price |-> availableTickers[i].last.n]]
        values == {prices[i].price : i \in 1..Len(prices)}
        \* Math.min(...) and Math.max(...): Infinity and -Infinity of no values
        minPrice == IF values = {} THEN JsNumber("Infinity", 0, 1)
                    ELSE JsNumber("finite",
                                  CHOOSE v \in values : \A w \in values : v <= w, 1)
        maxPrice == IF values = {} THEN JsNumber("-Infinity", 0, 1)
                    ELSE JsNumber("finite",
                                  CHOOSE v \in values : \A w \in values : v >= w, 1)
        \* maxPrice - minPrice; -Infinity - Infinity is -Infinity
        priceDiff == IF minPrice.k = "finite"
                     THEN JsNumber("finite", maxPrice.n - minPrice.n, 1)
                     ELSE JsNumber("-Infinity", 0, 1)
        \* (priceDiff / minPrice) * 100; -Infinity / Infinity is NaN
        priceDiffPercent == IF minPrice.k = "finite"
                            THEN Divide(priceDiff.n * 100, minPrice.n)
                            ELSE JsNumber("NaN", 0, 1)
        minExchange == FindExchange(prices, minPrice)
        maxExchange == FindExchange(prices, maxPrice)
        row(t) == <<Lit("| "), Val(Str(ToUpperCase(t.exchange))),
                    Lit(IF t.available THEN "available" ELSE "unavailable"),
                    IF t.last # Null
                    THEN Formatted("formatPrice", JsNumber("finite", t.last.n, 1))
                    ELSE Lit("N/A")>>
        RECURSIVE tableRows(_)
        tableRows(ts) == IF ts = <<>> THEN <<>> ELSE row(Head(ts)) \o tableRows(Tail(ts))
    IN <<Lit("Compare "), Val(symbol),
         Lit(" prices across exchanges for potential arbitrage opportunities:")>>
       \o tableRows(tickers)
       \o <<Lit("## Price Spread Analysis"),
            Lit("- **Lowest Price**: "), Formatted("formatPrice", minPrice),
            Lit(" on "), Val(Str(ToUpperCase(minExchange))),
            Lit("- **Highest Price**: "), Formatted("formatPrice", maxPrice),
            Lit(" on "), Val(Str(ToUpperCase(maxExchange))),
            Lit("- **Price Difference**: "), Formatted("formatPrice", priceDiff),
            Lit(" ("), Formatted("toFixed(3)", priceDiffPercent), Lit("%)")>>

\* buildOhlcvAnalysisPrompt over a non-empty candle series
BuildOhlcvAnalysisPrompt(exchange, symbol, interval, candles) ==
    LET n == Len(candles)
        first == candles[1]
        last == candles[n]
        \* candles.reduce((max, c) => (c.high > max.high ? c : max), candles[0])
        highCandle[k \in 1..n] ==
            IF k = 1 THEN candles[1]
            ELSE IF candles[k].high > highCandle[k - 1].high THEN candles[k]
            ELSE highCandle[k - 1]
        \* candles.reduce((min, c) => (c.low < min.low ? c : min), candles[0])
        lowCandle[k \in 1..n] ==
            IF k = 1 THEN candles[1]
            ELSE IF candles[k].low < lowCandle[k - 1].low THEN candles[k]
            ELSE lowCandle[k - 1]
        \* candles.reduce((sum, c) => sum + (c.volume || 0), 0)
        totalVolume[k \in 0..n] ==
            IF k = 0 THEN 0 ELSE totalVolume[k - 1] + candles[k].volume
        avgVolume == Divide(totalVolume[n], n)
        priceChange == last.close - first.open
        priceChangePercent == Divide(priceChange * 100, first.open)
        \* c.volume > avgVolume * 2
        volumeSpikes == Cardinality({k \in 1..n : candles[k].volume * n > totalVolume[n] * 2})
        bullish == Cardinality({k \in 1..n : candles[k].close >= candles[k].open})
        bearish == Cardinality({k \in 1..n : candles[k].close < candles[k].open})
    IN <<Lit("Analyze the OHLCV candlestick data for "), Val(symbol), Lit(" on "),
         Val(Str(ToUpperCase(exchange.s))),
         Lit("- **Interval:** "), Val(interval),
         Lit("- **Period Change:** "), Formatted("toFixed(2)", priceChangePercent),
         Lit("- **Period High:** "), Formatted("formatPrice", JsNumber("finite", highCandle[n].high, 1)),
         Lit(" at "), Formatted("formatTimestamp", JsNumber("finite", highCandle[n].timestamp, 1)),
         Lit("- **Period Low:** "), Formatted("formatPrice", JsNumber("finite", lowCandle[n].low, 1)),
         Lit(" at "), Formatted("formatTimestamp", JsNumber("finite", lowCandle[n].timestamp, 1)),
         Lit("- **Total Volume:** "), Formatted("formatVolume", JsNumber("finite", totalVolume[n], 1)),
         Lit("- **Average Volume/Candle:** "), Formatted("formatVolume", avgVolume),
         Lit("- **Volume Spikes (>2x avg):** "), Formatted("", JsNumber("finite", volumeSpikes, 1)),
         Lit("- **Bullish Candles:** "), Formatted("", JsNumber("finite", bullish, 1)),
         Lit("- **Bearish Candles:** "), Formatted("", JsNumber("finite", bearish, 1))>>

----------------------------------------------------------------------------
(* Prompt generators *)

\* the prompts array of prompts/index.ts
PromptNames == {"analyze_price_movement", "analyze_ohlcv", "compare_exchanges"}

\* the switch of the GetPrompt handler: the generator a name is routed to
PromptRoute(name) ==
    CASE name = "analyze_price_movement" -> "generateAnalyzePricePrompt"
      [] name = "compare_exchanges" -> "generateCompareExchangesPrompt"
      [] OTHER -> "default"

\* a GetPromptResult: one user text message; the result type has no error flag
Message(text) == Result(text, FALSE)

\* the catch block of a generator: prefix, then error.message
PromptCatch_silent(error, prefix) == Outcome(Message(<<>>), error, FALSE)
PromptCatch(error, prefix) ==
    Outcome(Message(<<Lit(prefix)>> \o
                    (CASE error.kind = "zod" -> Lits(error.issues)
                       [] error.kind \in {"api", "error"} -> <<Val(error.message)>>
                       [] OTHER -> <<Lit("Unknown error")>>)),
            error, FALSE)

\* String.prototype.split(sep)
RECURSIVE Split(_, _)
Split(cs, sep) ==
    IF \A i \in 1..Len(cs) : cs[i] # sep THEN <<cs>>
    ELSE LET i == CHOOSE k \in 1..Len(cs) :
                      cs[k] = sep /\ \A j \in 1..(k - 1) : cs[j] # sep
         IN <<SubSeq(cs, 1, i - 1)>> \o Split(SubSeq(cs, i + 1, Len(cs)), sep)

\* String.prototype.trim()
RECURSIVE Trim(_)
Trim(cs) ==
    IF cs = <<>> THEN cs
    ELSE IF Head(cs) = " " THEN Trim(Tail(cs))
    ELSE IF cs[Len(cs)] = " " THEN Trim(SubSeq(cs, 1, Len(cs) - 1))
    ELSE cs

DEFAULT_EXCHANGES ==
    << <<"b","i","n","a","n","c","e">>, <<"c","o","i","n","b","a","s","e">>,
       <<"k","r","a","k","e","n">> >>

\* exchangesStr ? exchangesStr.split(',').map((e) => e.trim().toLowerCase()) : DEFAULT_EXCHANGES
ExchangeList_default(exchangesStr) == DEFAULT_EXCHANGES
ExchangeList(exchangesStr) ==
    IF Truthy(exchangesStr)
    THEN LET parts == Split(exchangesStr.s, ",") IN
         [i \in 1..Len(parts) |-> ToLowerCase(Trim(parts[i]))]
    ELSE DEFAULT_EXCHANGES

\* a generator is entered: arguments are validated; on a validation failure
\* the catch block returns at once, otherwise the first upstream request is
\* issued and the generator awaits it
EnterPrompt(prompt, args, issues, prefix, request) ==
    /\ toolPc = "idle"
    /\ nCalls < MaxCalls
    /\ nCalls' = nCalls + 1
    /\ toolCall' = [tool |-> prompt, args |-> args]
    /\ upstreamResponse' = NoResponse
    /\ IF issues # <<>>
       THEN LET o == PromptCatch(ZodError(issues), prefix) IN
            /\ toolPc' = "done"
            /\ pending' = NoRequest
            /\ upstreamLog' = <<>>
            /\ toolResult' = o.result
            /\ thrown' = o.thrown
            /\ caught' = [error |-> o.error, rendered |-> o.rendered]
            /\ UNCHANGED client
       ELSE /\ CanGetApiClient
            /\ client' = GetApiClient(client)
            /\ toolPc' = "fetching"
            /\ pending' = request
            /\ upstreamLog' = <<request>>
            /\ toolResult' = Result(<<>>, FALSE)
            /\ thrown' = FALSE
            /\ caught' = NoCaught

\* generateAnalyzePricePrompt, after the upstream answered
FinishAnalyzePrice(args, response) ==
    LET r == GetTicker(response) IN
    IF r.threw THEN PromptCatch(r.error, "Error generating analysis: ")
    ELSE IF r.value = "null"
    THEN Outcome(Message(<<Lit("Unable to fetch data for "), Val(args.symbol),
                           Lit(" on "), Val(args.exchange),
                           Lit(". Please verify the symbol and exchange are correct and try again.")>>),
                 NoError, FALSE)
    ELSE IF r.value = "object"
    THEN PromptCatch(JsError(<<"t">>), "Error generating analysis: ")
    ELSE Outcome(Message(<<Lit("Analyze the price movement for ")>>), NoError, FALSE)

\* generateAnalyzeOhlcvPrompt, once data.candles is known (no candles: the
\* empty sequence)
OhlcvPrompt(args, candles) ==
    IF candles = <<>>
    THEN Outcome(Message(<<Lit("Unable to fetch OHLCV data for "), Val(args.symbol),
                           Lit(" on "), Val(args.exchange), Lit(" with interval "),
                           Val(OrElse(args.interval, Str(<<"1","h">>))),
                           Lit(". Please verify the symbol and exchange are correct and try again.")>>),
                 NoError, FALSE)
    ELSE Outcome(Message(BuildOhlcvAnalysisPrompt(args.exchange, args.symbol,
                                                  OrElse(args.interval, Str(<<"1","h">>)),
                                                  candles)),
                 NoError, FALSE)

\* generateAnalyzeOhlcvPrompt, after the upstream answered
FinishAnalyzeOhlcv(args, response) ==
    LET r == ClientRequest(response) IN
    IF r.threw THEN PromptCatch(r.error, "Error generating OHLCV analysis: ")
    ELSE IF r.value = "null"
    THEN PromptCatch(JsError(<<"t">>), "Error generating OHLCV analysis: ")
    ELSE IF r.value \in {"object", "empty"} THEN OhlcvPrompt(args, <<>>)
    \* a body with candles: one candle stands for the series
    ELSE OhlcvPrompt(args, <<[timestamp |-> 1, open |-> 10, high |-> 12, low |-> 10,
                              close |-> 12, volume |-> 100]>>)

\* exchangeList.join(', ')
RECURSIVE Joined(_)
Joined(list) ==
    IF list = <<>> THEN <<>>
    ELSE IF Len(list) = 1 THEN <<Val(Str(list[1]))>>
    ELSE <<Val(Str(list[1])), Lit(", ")>> \o Joined(Tail(list))

\* generateCompareExchangesPrompt, after the loop over the exchanges
FinishCompareExchanges(args, exchangeList, tickerResults) ==
    IF \A i \in 1..Len(tickerResults) : ~tickerResults[i].available
    THEN Outcome(Message(<<Lit("Unable to fetch "), Val(args.symbol),
                           Lit(" data from any of the specified exchanges (")>>
                         \o Joined(exchangeList)
                         \o <<Lit("). Please verify the symbol is available on these exchanges.")>>),
                 NoError, FALSE)
    ELSE Outcome(Message(BuildComparisonPrompt(args.symbol, tickerResults)),
                 NoError, FALSE)

\* each generator begins with inputSchema.parse(args): the issues it raises
\* are the third argument of EnterPrompt
GenerateAnalyzePricePrompt(args) ==
    /\ EnterPrompt("analyze_price_movement", args,
                   IF ~args.present THEN <<"Required">>
                   ELSE ZString(args.exchange, 1) \o ZString(args.symbol, 1),
                   "Error generating analysis: ",
                   GetTickerRequest(ToLowerCase(args.exchange.s),
                                    ToUpperCase(args.symbol.s)))
    /\ UNCHANGED compare
GenerateAnalyzeOhlcvPrompt(args) ==
    /\ EnterPrompt("analyze_ohlcv", args,
                   IF ~args.present THEN <<"Required">>
                   ELSE ZString(args.exchange, 1) \o ZString(args.symbol, 1)
                        \o ZOptional(args.interval, ZEnum(args.interval, IntervalEnum)),
                   "Error generating OHLCV analysis: ",
                   GetHistoryRequest(ToLowerCase(args.exchange.s),
                                     ToUpperCase(args.symbol.s),
                                     OrElse(args.interval, Str(<<"1","h">>)), Undef))
    /\ UNCHANGED compare
GenerateCompareExchangesPrompt(args, exchanges) ==
    LET issues == IF ~args.present THEN <<"Required">>
                  ELSE ZString(args.symbol, 1)
                       \o ZOptional(exchanges, ZString(exchanges, 0))
        list == ExchangeList(exchanges)
    IN
    /\ EnterPrompt("compare_exchanges", args, issues, "Error generating comparison: ",
                   GetTickerRequest(list[1], ToUpperCase(args.symbol.s)))
    /\ compare' = [arg |-> exchanges,
                   exchangeList |-> IF issues = <<>> THEN list ELSE <<>>,
                   tickerResults |-> <<>>]

ResumeAnalyzePrice(response) ==
    /\ Leave("analyze_price_movement", response,
             FinishAnalyzePrice(toolCall.args, response))
    /\ UNCHANGED rpcVars
ResumeAnalyzeOhlcv(response) ==
    /\ Leave("analyze_ohlcv", response, FinishAnalyzeOhlcv(toolCall.args, response))
    /\ UNCHANGED rpcVars

\* for (const exchange of exchangeList) { await getTicker(...) }: after the
\* i-th getTicker settled with r, the loop goes on to exchange i + 1 unless r
\* is a thrown error or the list is exhausted
MoreExchanges_afterError(r, i, list) == i < Len(list)
MoreExchanges(r, i, list) == ~r.threw /\ i < Len(list)

\* compare_exchanges: the awaited getTicker of the current exchange settles.
\* An error leaves the loop through the catch block; otherwise the result is
\* pushed and either the next exchange is fetched or the generator returns.
ResumeCompareExchanges(response) ==
    /\ toolPc = "fetching"
    /\ toolCall.tool = "compare_exchanges"
    /\ LET r == GetTicker(response)
           i == Len(compare.tickerResults) + 1
           list == compare.exchangeList
           \* tickerResults.push: a ticker body with its fields has last 100,
           \* one without a last price has last null
           results == Append(compare.tickerResults,
                             [exchange |-> list[i],
                              last |-> IF r.value = "full" THEN Num(100) ELSE Null,
                              available |-> r.value # "null"])
           o == IF r.threw THEN PromptCatch(r.error, "Error generating comparison: ")
                ELSE FinishCompareExchanges(toolCall.args, list, results)
       IN
       IF MoreExchanges(r, i, list)
       THEN LET request == GetTickerRequest(list[i + 1],
                                            ToUpperCase(toolCall.args.symbol.s)) IN
            /\ compare' = [compare EXCEPT !.tickerResults = results]
            /\ pending' = request
            /\ upstreamLog' = Append(upstreamLog, request)
            /\ upstreamResponse' = response
            /\ UNCHANGED <<toolPc, toolCall, toolResult, thrown, caught, nCalls,
                           client, rpc>>
       ELSE /\ compare' = IF r.threw THEN compare
                          ELSE [compare EXCEPT !.tickerResults = results]
            /\ Leave("compare_exchanges", response, o)
            /\ UNCHANGED rpc

\* the arguments sent with each name a get-prompt request can carry
PromptCallArgs(name) ==
    CASE name = "analyze_price_movement" ->
           {NoArgs} \cup {Args(TRUE, e, sy, Undef, Undef, Undef, Undef) :
                             e \in ExchangeVals, sy \in SymbolVals}
      [] name = "compare_exchanges" ->
           {NoArgs} \cup {Args(TRUE, Undef, sy, Undef, Undef, Undef, Undef) :
                             sy \in SymbolVals}
      [] name = "analyze_ohlcv" ->
           {NoArgs, Args(TRUE, Str(<<"B","n">>), Str(<<"b","/","u">>), Undef, Undef,
                         Undef, Undef)}
      [] OTHER -> {NoArgs}
\* the exchanges argument of compare_exchanges
PromptCallExchanges(name) ==
    IF name = "compare_exchanges"
    THEN {Undef, Str(<<>>), Str(<<"B">>), Str(<<"B", ",", " ", "n">>),
          Str(<<"b", ",", "b">>), Str(<<",">>), Num(7)}
    ELSE {Undef}

\* GetPrompt request handler
GetPrompt(name, args, exchanges) ==
    LET \* args ?? {}
        argsOrEmpty == IF args.present THEN args
                       ELSE Args(TRUE, Undef, Undef, Undef, Undef, Undef, Undef)
    IN
    /\ rpc' = Request("prompts/get", name, PromptRoute(name))
    /\ CASE PromptRoute(name) = "generateAnalyzePricePrompt" ->
              GenerateAnalyzePricePrompt(argsOrEmpty)
         [] PromptRoute(name) = "generateCompareExchangesPrompt" ->
              GenerateCompareExchangesPrompt(argsOrEmpty, exchanges)
         [] OTHER ->
              Immediate(name, args, Message(<<Lit("Unknown prompt: "), Lit(name)>>))
              /\ UNCHANGED compare

\* ListPrompts request handler
ListPrompts ==
    /\ rpc' = [Request("prompts/list", "none", "none") EXCEPT !.listed =
                  {"analyze_price_movement", "compare_exchanges"}]
    /\ UNCHANGED compare
    /\ Immediate("none", NoArgs, Result(<<>>, FALSE))

----------------------------------------------------------------------------
(* The prompt builders applied to ticker results and candle series *)

\* generateCompareExchangesPrompt from the end of its loop on, for the
\* tickerResults the loop collected
CompareTickers(tickers) ==
    /\ calc.fn = "none"
    /\ calc' = [fn |-> "compare_exchanges", tickers |-> tickers, candles |-> <<>>,
                text |-> FinishCompareExchanges(
                             Args(TRUE, Undef, Str(<<"b","/","u">>), Undef, Undef, Undef,
                                  Undef),
                             [i \in 1..Len(tickers) |-> tickers[i].exchange],
                             tickers).result.text]

\* generateAnalyzeOhlcvPrompt from the answer of getHistory on, for the
\* candles of the answer
AnalyzeCandles(candles) ==
    /\ calc.fn = "none"
    /\ calc' = [fn |-> "analyze_ohlcv", tickers |-> <<>>, candles |-> candles,
                text |-> OhlcvPrompt(
                             Args(TRUE, Str(<<"B","n">>), Str(<<"b","/","u">>), Undef,
                                  Undef, Undef, Undef),
                             candles).result.text]

\* Ticker results: per exchange an absent ticker, a ticker without a last
\* price, or a last price of 1..MaxPrice; the i-th exchange is named by i
\* letters.  Candle series: up to MaxCandles candles, timestamped by position.
BuildNext ==
    \/ \E n \in 1..MaxTickers :
         \E results \in [1..n -> {[last |-> Null, available |-> FALSE],
                                  [last |-> Null, available |-> TRUE]}
                                 \cup {[last |-> Num(p), available |-> TRUE] :
                                          p \in 1..MaxPrice}] :
           /\ CompareTickers([i \in 1..n |->
                                [exchange |-> [j \in 1..i |-> "b"],
                                 last |-> results[i].last,
                                 available |-> results[i].available]])
           /\ UNCHANGED <<httpVars, toolVars, rpcVars, client, norm>>
    \/ \E n \in 0..MaxCandles :
         \E series \in [1..n -> {[open |-> 10, high |-> 12, low |-> 10, close |-> 12, volume |-> 100],
                                 [open |-> 12, high |-> 12, low |-> 11, close |-> 11, volume |-> 100],
                                 [open |-> 11, high |-> 15, low |-> 10, close |-> 15, volume |-> 500],
                                 [open |-> 10, high |-> 15, low |-> 9, close |-> 10, volume |-> 200],
                                 [open |-> 12, high |-> 13, low |-> 9, close |-> 12, volume |-> 0]}] :
           /\ AnalyzeCandles([i \in 1..n |->
                                [timestamp |-> i, open |-> series[i].open,
                                 high |-> series[i].high, low |-> series[i].low,
                                 close |-> series[i].close, volume |-> series[i].volume]])
           /\ UNCHANGED <<httpVars, toolVars, rpcVars, client, norm>>

----------------------------------------------------------------------------
(* Resources *)

\* 'luzia://exchanges'
ExchangesUri ==
    <<"l","u","z","i","a",":","/","/","e","x","c","h","a","n","g","e","s">>

\* 'luzia://ticker/', the fixed head of /^luzia:\/\/ticker\/([^/]+)\/([^/]+)$/
TickerUriHead ==
    <<"l","u","z","i","a",":","/","/","t","i","c","k","e","r","/">>

StartsWith(cs, head) == Len(cs) >= Len(head) /\ SubSeq(cs, 1, Len(head)) = head

\* uri.match(/^luzia:\/\/ticker\/([^/]+)\/([^/]+)$/): the two captured groups,
\* or the empty sequence when the uri does not match
TickerMatch_loose(uri) ==
    IF StartsWith(uri, TickerUriHead)
    THEN LET parts == Split(SubSeq(uri, Len(TickerUriHead) + 1, Len(uri)), "/") IN
         IF Len(parts) >= 2 THEN <<parts[1], parts[2]>> ELSE <<parts[1], parts[1]>>
    ELSE <<>>
TickerMatch(uri) ==
    IF StartsWith(uri, TickerUriHead)
    THEN LET parts == Split(SubSeq(uri, Len(TickerUriHead) + 1, Len(uri)), "/") IN
         IF Len(parts) = 2 /\ parts[1] # <<>> /\ parts[2] # <<>> THEN parts ELSE <<>>
    ELSE <<>>

\* the static fallback list of the exchanges resource
FallbackExchanges == <<Lit("exchanges"), Lit("binance"), Lit("coinbase"), Lit("kraken")>>

\* JSON.stringify({ exchanges: exchanges.map((e) => e.id) })
LiveExchanges(value) ==
    IF value = "full" THEN <<Lit("exchanges"), Lit("live id")>> ELSE <<Lit("exchanges")>>

\* the exchanges resource, after the upstream answered
FinishReadExchanges(response) ==
    LET r == GetExchanges(response) IN
    IF r.threw THEN Outcome(Result(FallbackExchanges, FALSE), r.error, FALSE)
    ELSE IF r.value = "undefined"
    THEN Outcome(Result(FallbackExchanges, FALSE), JsError(<<"t">>), FALSE)
    ELSE Outcome(Result(LiveExchanges(r.value), FALSE), NoError, FALSE)

\* a ticker resource, after the upstream answered
FinishReadTicker(args, response) ==
    LET r == GetTicker(response) IN
    IF r.threw
    THEN Outcome(Result(<<Lit("Error fetching ticker for "), Val(args.symbol),
                          Lit(" on "), Val(args.exchange)>>, FALSE),
                 r.error, FALSE)
    ELSE IF r.value = "null"
    THEN Outcome(Result(<<Lit("Ticker not found for "), Val(args.symbol),
                          Lit(" on "), Val(args.exchange)>>, FALSE),
                 NoError, FALSE)
    ELSE Outcome(Result(<<Lit("ticker")>>, FALSE), NoError, FALSE)

\* the branch of the ReadResource handler a uri takes
ResourceRoute(uri) ==
    IF uri = ExchangesUri THEN "luzia://exchanges"
    ELSE IF TickerMatch(uri) # <<>> THEN "luzia://ticker"
    ELSE "unknown resource"

\* ReadResource request handler
ReadResource(uri) ==
    /\ rpc' = [Request("resources/read", "none", ResourceRoute(uri)) EXCEPT !.uri = uri]
    /\ UNCHANGED compare
    /\ CASE ResourceRoute(uri) = "luzia://exchanges" ->
              Enter("luzia://exchanges", NoArgs, <<>>, GetExchangesRequest)
         [] ResourceRoute(uri) = "luzia://ticker" ->
              LET exchange == TickerMatch(uri)[1]
                  normalizedSymbol == UrlToSymbol(TickerMatch(uri)[2])
              IN Enter("luzia://ticker",
                       Args(TRUE, Str(exchange), Str(normalizedSymbol), Undef, Undef,
                            Undef, Undef),
                       <<>>, GetTickerRequest(exchange, normalizedSymbol))
         [] OTHER -> Immediate("unknown resource", NoArgs,
                                Result(<<Lit("Unknown resource: "), Val(Str(uri))>>, FALSE))

ResumeReadExchanges(response) ==
    /\ Leave("luzia://exchanges", response, FinishReadExchanges(response))
    /\ UNCHANGED rpcVars
ResumeReadTicker(response) ==
    /\ Leave("luzia://ticker", response, FinishReadTicker(toolCall.args, response))
    /\ UNCHANGED rpcVars

\* ListResources request handler
ListResources ==
    /\ rpc' = [Request("resources/list", "none", "none") EXCEPT !.listed = {ExchangesUri}]
    /\ UNCHANGED compare
    /\ Immediate("none", NoArgs, Result(<<>>, FALSE))

\* getApiClient called by an importer of the module, outside a handler.
\* The steps of a handler in flight neither read nor write apiClientInstance
\* (the handler holds its client in a local), so they commute with this call
\* and with resetApiClient: both are taken between handler invocations.
DirectGetApiClient ==
    /\ toolPc = "idle"
    /\ CanGetApiClient
    /\ client' = GetApiClient(client)
    /\ UNCHANGED <<toolVars, rpcVars>>

\* resetApiClient (test isolation): apiClientInstance = null
DirectResetApiClient ==
    /\ toolPc = "idle"
    /\ client' = [client EXCEPT !.instance = NoClient, !.returned = {}, !.built = 0,
                                !.discarded = client.discarded
                                                \cup ({client.instance} \ {NoClient})]
    /\ UNCHANGED <<toolVars, rpcVars>>

ToolNext ==
    \/ \E args \in GetTickerArgs : ExecuteGetTicker(args) /\ UNCHANGED <<httpVars, rpcVars, norm, calc>>
    \/ \E args \in GetTickersArgs : ExecuteGetTickers(args) /\ UNCHANGED <<httpVars, rpcVars, norm, calc>>
    \/ \E args \in GetHistoryArgs : ExecuteGetHistory(args) /\ UNCHANGED <<httpVars, rpcVars, norm, calc>>
    \/ \E args \in GetMarketsArgs : ExecuteGetMarkets(args) /\ UNCHANGED <<httpVars, rpcVars, norm, calc>>
    \/ ExecuteGetExchanges /\ UNCHANGED <<httpVars, rpcVars, norm, calc>>
    \/ \E response \in Responses : ResumeGetTicker(response) /\ UNCHANGED <<httpVars, rpcVars, norm, calc>>
    \/ \E response \in Responses : ResumeGetTickers(response) /\ UNCHANGED <<httpVars, rpcVars, norm, calc>>
    \/ \E response \in Responses : ResumeGetHistory(response) /\ UNCHANGED <<httpVars, rpcVars, norm, calc>>
    \/ \E response \in Responses : ResumeGetMarkets(response) /\ UNCHANGED <<httpVars, rpcVars, norm, calc>>
    \/ \E response \in Responses : ResumeGetExchanges(response) /\ UNCHANGED <<httpVars, rpcVars, norm, calc>>
    \/ Return /\ UNCHANGED <<httpVars, norm, calc>>

\* the upstream outcomes the protocol server is run against: a failed fetch,
\* every 2xx body, and every error status with an unusable body, a body
\* without fields and a body with a message
ServerResponses ==
    {NetworkFailure} \cup OkResponses
    \cup {r \in ErrorResponses : r.statusText = <<"s">> /\ r.error = Undef
                                   /\ r.message \in {Undef, Str(<<"m">>)}}

\* the protocol server: requests through the dispatchers, the handlers that
\* are exported without being registered, and the client singleton
ServerNext ==
    \/ \E args \in GetHistoryArgs :
           ExecuteGetHistory(args) /\ UNCHANGED <<httpVars, rpcVars, norm, calc>>
    \/ \E response \in ServerResponses :
           ResumeGetTicker(response) /\ UNCHANGED <<httpVars, rpcVars, norm, calc>>
    \/ \E response \in ServerResponses :
           ResumeGetTickers(response) /\ UNCHANGED <<httpVars, rpcVars, norm, calc>>
    \/ \E response \in ServerResponses :
           ResumeGetHistory(response) /\ UNCHANGED <<httpVars, rpcVars, norm, calc>>
    \/ \E response \in ServerResponses :
           ResumeGetMarkets(response) /\ UNCHANGED <<httpVars, rpcVars, norm, calc>>
    \/ \E response \in ServerResponses :
           ResumeGetExchanges(response) /\ UNCHANGED <<httpVars, rpcVars, norm, calc>>
    \/ Return /\ UNCHANGED <<httpVars, norm, calc>>
    \/ \E name \in ToolNames \cup {"nope"} : \E args \in CallArgs(name) :
           CallTool(name, args) /\ UNCHANGED <<httpVars, norm, calc>>
    \/ ListTools /\ UNCHANGED <<httpVars, norm, calc>>
    \/ \E name \in PromptNames \cup {"nope"} :
         \E args \in PromptCallArgs(name), exchanges \in PromptCallExchanges(name) :
           GetPrompt(name, args, exchanges) /\ UNCHANGED <<httpVars, norm, calc>>
    \/ ListPrompts /\ UNCHANGED <<httpVars, norm, calc>>
    \/ \E args \in {NoArgs} \cup {Args(TRUE, e, sy, Undef, Undef, i, Undef) :
                                     e \in ExchangeVals, sy \in SymbolVals,
                                     i \in IntervalVals} :
           GenerateAnalyzeOhlcvPrompt(args) /\ UNCHANGED <<httpVars, rpc, norm, calc>>
    \/ \E response \in ServerResponses :
           ResumeAnalyzePrice(response) /\ UNCHANGED <<httpVars, norm, calc>>
    \/ \E response \in ServerResponses :
           ResumeAnalyzeOhlcv(response) /\ UNCHANGED <<httpVars, norm, calc>>
    \/ \E response \in ServerResponses :
           ResumeCompareExchanges(response) /\ UNCHANGED <<httpVars, norm, calc>>
    \/ \E uri \in
         {ExchangesUri, ExchangesUri \o <<"/">>, <<>>, <<"h",":","/","/","x">>,
          TickerUriHead, TickerUriHead \o <<"B","n">>,
          TickerUriHead \o <<"/","b","-","u">>,
          TickerUriHead \o <<"B","n","/","b","/","u">>,
          TickerUriHead \o <<"B","n","/","b","-","u">>,
          TickerUriHead \o <<"B","n","/","b","u">>,
          TickerUriHead \o <<"B","n","/","b","-","u","-","x">>} :
           ReadResource(uri) /\ UNCHANGED <<httpVars, norm, calc>>
    \/ ListResources /\ UNCHANGED <<httpVars, norm, calc>>
    \/ \E response \in ServerResponses :
           ResumeReadExchanges(response) /\ UNCHANGED <<httpVars, norm, calc>>
    \/ \E response \in ServerResponses :
           ResumeReadTicker(response) /\ UNCHANGED <<httpVars, norm, calc>>
    \/ DirectGetApiClient /\ UNCHANGED <<httpVars, norm, calc>>
    \/ DirectResetApiClient /\ UNCHANGED <<httpVars, norm, calc>>

\* client.instance  : apiClientInstance (NoClient, or the number of the client)
\* client.configs   : the clients constructed so far, in order of construction
\* client.returned  : history, the clients getApiClient returned since the last reset
\* client.built     : history, the clients constructed since the last reset
\* client.discarded : history, the clients a reset dropped
Init ==
    /\ HttpInit
    /\ ToolIdle
    /\ rpc = NoRpc
    /\ compare = NoCompare
    /\ client = [instance |-> NoClient, configs |-> <<>>, returned |-> {}, built |-> 0,
                 discarded |-> {}]
    /\ norm = [pc |-> "idle", symbol |-> <<>>, url |-> <<>>, back |-> <<>>]
    /\ calc = [fn |-> "none", tickers |-> <<>>, candles |-> <<>>, text |-> <<>>]

Next ==
    \/ \E r \in Slots, header \in Headers,
          kind \in {"initialize", "message", "delete"} :
           McpRequest(r, header, kind) /\ UNCHANGED <<toolVars, rpcVars, client, norm, calc>>
    \/ \E r \in Slots : ConnectDone(r) /\ UNCHANGED <<toolVars, rpcVars, client, norm, calc>>
    \/ \E r \in Slots : HandleRequest(r) /\ UNCHANGED <<toolVars, rpcVars, client, norm, calc>>

Spec == Init /\ [][Next]_vars

ToolSpec == Init /\ [][ToolNext]_vars

SymbolSpec == Init /\ [][SymbolNext]_vars

BuildSpec == Init /\ [][BuildNext]_vars

ServerSpec == Init /\ [][ServerNext]_vars

----------------------------------------------------------------------------
(* Claims about the session map (Spec) *)

\* the step in which slot r leaves the idle state: a /mcp request arrives
Arrives(r) == req[r].pc = "idle" /\ req'[r].pc # "idle"

\* the step in which the transport finishes handling the request of slot r
Handled(r) == req[r].pc = "handling" /\ req'[r].pc = "idle"

\* the step in which onsessionclosed(id) runs
CloseStep(id) ==
    \E r \in Slots : /\ Handled(r)
                     /\ lastHandled'.outcome = "closed"
                     /\ tSessionId[req[r].transport] = id

\* m2 is m1 with exactly the entry of key removed
RemovedOnly(m1, m2, key) ==
    /\ DOMAIN m2 = (DOMAIN m1) \ {key}
    /\ \A k \in DOMAIN m2 : m2[k] = m1[k]

C1_DistinctIds ==
    \A t1, t2 \in 1..nTransports :
        (t1 # t2 /\ tSessionId[t1] # NoSessionId /\ tSessionId[t2] # NoSessionId)
            => tSessionId[t1] # tSessionId[t2]

C1_CloseRemovesOnly ==
    \A id \in DOMAIN sessions : CloseStep(id) => RemovedOnly(sessions, sessions', id)

C1_UnknownIsNew ==
    \A r \in Slots :
        (Arrives(r) /\ (req'[r].header \in {Omitted, EmptyHeader}
                        \/ req'[r].header \notin DOMAIN sessions))
            => /\ nTransports' = nTransports + 1
               /\ req'[r].transport = nTransports'
               /\ \A k \in DOMAIN sessions : sessions[k] # req'[r].transport
               /\ \A q \in Slots \ {r} : req[q].transport # req'[r].transport

\* C1: sessions that were created have pairwise distinct ids; the
\* session-closed callback for an id removes exactly that entry and leaves
\* every other entry as it was; a /mcp request whose header is omitted or is
\* no key of the map gets a transport constructed for it, never one that the
\* map or another request already holds.
C1_SessionMap == []C1_DistinctIds /\ [][C1_CloseRemovesOnly /\ C1_UnknownIsNew]_vars

\* two sessions were created, one was closed and the other is still mapped
C1_Witness ==
    /\ uuidCount = 2
    /\ Cardinality(closedIds) = 1
    /\ Cardinality(DOMAIN sessions) = 1
    /\ lastHandled.outcome = "closed"

\* C2: the session map is injective: two distinct session ids never map to
\* the same transport.
C2_Injective ==
    \A k1, k2 \in DOMAIN sessions : k1 # k2 => sessions[k1] # sessions[k2]

\* two sessions are in the map at once
C2_Witness == Cardinality(DOMAIN sessions) = 2

\* every transport constructed has exactly one protocol server connected to it
OneServerPerTransport ==
    /\ Len(serverTransport) = nTransports
    /\ \A t \in 1..nTransports :
           Cardinality({i \in 1..Len(serverTransport) : serverTransport[i] = t}) = 1

\* a request with a known session id takes the stored transport and constructs nothing
C3_KnownReuses ==
    \A r \in Slots :
        (Arrives(r) /\ req'[r].header \in DOMAIN sessions)
            => /\ req'[r].transport = sessions[req'[r].header]
               /\ req'[r].pc = "handling"
               /\ nTransports' = nTransports
               /\ serverTransport' = serverTransport
               /\ sessions' = sessions

C3_HandlingKeepsMap ==
    \A r \in Slots :
        (Handled(r) /\ req[r].hit)
            => /\ nTransports' = nTransports
               /\ serverTransport' = serverTransport
               /\ sessions' = sessions

C3_HandlingKeepsMapButDelete ==
    \A r \in Slots :
        (Handled(r) /\ req[r].hit)
            => /\ nTransports' = nTransports
               /\ serverTransport' = serverTransport
               /\ \/ sessions' = sessions
                  \/ /\ req[r].kind = "delete"
                     /\ RemovedOnly(sessions, sessions', req[r].header)

\* C3 (as claimed): a /mcp request whose session id is a key of the map is
\* handled by the stored transport, and handling it constructs no transport
\* and no protocol server and leaves the session map unchanged; each
\* constructed transport has exactly one protocol server connected to it.
C3_Original ==
    []OneServerPerTransport /\ [][C3_KnownReuses /\ C3_HandlingKeepsMap]_vars

\* C3 (amended): as above, except that handling a DELETE request of a known
\* session removes that session's own entry (through onsessionclosed) and
\* nothing else.
C3_KnownSession ==
    []OneServerPerTransport /\ [][C3_KnownReuses /\ C3_HandlingKeepsMapButDelete]_vars

\* a request with a known session id was handled by the stored transport and
\* closed the session
C3_Witness ==
    /\ lastHandled.hit
    /\ lastHandled.outcome = "closed"
    /\ closedIds # {}
    /\ \A id \in closedIds : id \notin DOMAIN sessions
    /\ Len(serverTransport) = nTransports

C4_StaysUntilClosed ==
    \A id \in DOMAIN sessions :
        \/ id \in DOMAIN sessions' /\ sessions'[id] = sessions[id]
        \/ CloseStep(id)

C4_NoEviction ==
    \A t \in 1..nTransports :
        (tSessionId[t] # NoSessionId /\ tSessionId[t] \notin closedIds)
            => /\ tSessionId[t] \in DOMAIN sessions
               /\ sessions[tSessionId[t]] = t

\* C4: an entry inserted by the session-initialized callback stays in the
\* map, unchanged, in every later state until the session-closed callback
\* for its id runs; an initialized session whose close callback never ran is
\* always still in the map (nothing else evicts it), so the map holds every
\* such session however many there are.
C4_EntryPersists == []C4_NoEviction /\ [][C4_StaysUntilClosed]_vars

\* every transport the bound allows was initialized, none closed: all are mapped
C4_Witness ==
    /\ nTransports = MaxTransports
    /\ closedIds = {}
    /\ Cardinality(DOMAIN sessions) = MaxTransports
    /\ \A r \in Slots : req[r].pc = "idle"

----------------------------------------------------------------------------
(* Claims about the tool handlers (ToolSpec) *)

Done == toolPc = "done"
Tool == toolCall.tool
Flagged == toolResult.isError

\* the upstream said "not found"
Upstream404 == upstreamResponse.kind = "http" /\ upstreamResponse.status = 404

\* the upstream answered 2xx with the expected object holding zero results
UpstreamEmpty ==
    /\ upstreamResponse.kind = "http"
    /\ upstreamResponse.status = 200
    /\ upstreamResponse.shape = "empty"

C5_Case == Done /\ Tool = "get_ticker" /\ Upstream404

\* C5 (as claimed): for get_ticker with valid arguments and an upstream 404,
\* the client's getTicker returns null instead of raising and the tool
\* returns a result without the error flag whose text contains the requested
\* symbol and exchange.
C5_Original ==
    C5_Case => /\ GetTicker(upstreamResponse) = Returned("null")
               /\ ~thrown
               /\ ~Flagged
               /\ Contains(toolResult.text, toolCall.args.symbol)
               /\ Contains(toolResult.text, toolCall.args.exchange)

\* C5 (amended): as above, but the result carries the error flag.
C5_NotFoundFlagged ==
    C5_Case => /\ ~thrown
               /\ caught.error.kind = "none"
               /\ Flagged
               /\ toolResult.text[1] = Lit("Ticker not found for ")
               /\ Contains(toolResult.text, toolCall.args.symbol)
               /\ Contains(toolResult.text, toolCall.args.exchange)

\* get_ticker finished after an upstream 404 whose error body carried details
C5_Witness == C5_Case /\ Truthy(upstreamResponse.message)

\* C6: empty results are flagged asymmetrically: get_ticker flags an absent
\* ticker (upstream 404, or a null body), while get_tickers with zero
\* tickers, get_history with zero candles and get_markets with zero markets
\* return explanatory text without the error flag.
C6_Asymmetry ==
    Done =>
      /\ (Tool = "get_ticker" /\ (Upstream404 \/ (upstreamResponse.status = 200
                                                  /\ upstreamResponse.shape = "null")))
            => Flagged /\ toolResult.text[1] = Lit("Ticker not found for ")
      /\ (Tool = "get_tickers" /\ UpstreamEmpty)
            => ~Flagged /\ toolResult.text[1] = Lit("No tickers found matching the specified criteria.")
      /\ (Tool = "get_history" /\ UpstreamEmpty)
            => ~Flagged /\ toolResult.text[1] = Lit("No candle data found for ")
      /\ (Tool = "get_markets" /\ UpstreamEmpty)
            => ~Flagged /\ toolResult.text[1] = Lit("No markets found for exchange ")

\* get_tickers finished with zero tickers
C6_Witness == Done /\ Tool = "get_tickers" /\ UpstreamEmpty /\ ~thrown

\* a string-typed argument that is missing, of another type, or empty
BadRequiredString(v) == v.type # "string" \/ v.s = <<>>
BadOptionalString(v) == v.type # "undefined" /\ BadRequiredString(v)
\* a limit that is given and is no number within lo..hi
BadLimit(v, lo, hi) ==
    v.type # "undefined" /\ (v.type # "number" \/ v.n < lo \/ v.n > hi)

\* the arguments of the current call violate the tool's schema
ViolatesSchema ==
    LET a == toolCall.args IN
    CASE Tool = "get_ticker" ->
           ~a.present \/ BadRequiredString(a.exchange) \/ BadRequiredString(a.symbol)
      [] Tool = "get_tickers" ->
           \/ ~a.present
           \/ BadOptionalString(a.exchange)
           \/ (a.symbols.type \notin {"undefined", "array"})
           \/ BadLimit(a.limit, 1, 50)
      [] Tool = "get_history" ->
           \/ ~a.present
           \/ BadRequiredString(a.exchange)
           \/ BadRequiredString(a.symbol)
           \/ BadLimit(a.limit, 1, 500)
      [] Tool = "get_markets" ->
           \/ ~a.present
           \/ BadRequiredString(a.exchange)
           \/ BadOptionalString(a.quote)
           \/ BadLimit(a.limit, 1, 100)
      [] OTHER -> FALSE

\* C7: when the arguments violate the tool's schema (a required field
\* missing or empty, a wrong type, a limit outside its range), the call ends
\* with a result that has the error flag set, and no upstream request is
\* issued during it.
C7_ValidationBeforeUpstream ==
    (toolPc # "idle" /\ ViolatesSchema)
        => /\ Done
           /\ Flagged
           /\ toolResult.text[1] = Lit("Invalid input: ")
           /\ upstreamLog = <<>>
           /\ pending = NoRequest

\* get_tickers was called with limit 51
C7_Witness ==
    /\ Done
    /\ Tool = "get_tickers"
    /\ toolCall.args.limit = Num(51)
    /\ toolCall.args.exchange = Undef
    /\ toolCall.args.symbols = Undef

\* what the handler of the current call returns when the upstream answers response
FinishCurrent(response) ==
    CASE Tool = "get_ticker" -> FinishGetTicker(toolCall.args, response)
      [] Tool = "get_tickers" -> FinishGetTickers(toolCall.args, response)
      [] Tool = "get_history" -> FinishGetHistory(toolCall.args, response)
      [] Tool = "get_markets" -> FinishGetMarkets(toolCall.args, response)
      [] OTHER -> FinishGetExchanges(response)

\* C8: every tool handler is total: a call that has validated its arguments
\* completes, for every upstream outcome (success, any non-2xx status,
\* network failure, unparsable body), with a textual result; a call that
\* completed has a textual result; and whenever an error reached the
\* handler's catch block the result has the error flag set.
C8_Total ==
    /\ toolPc = "fetching" =>
          \A response \in Responses :
              LET o == FinishCurrent(response) IN
              /\ o.result.text # <<>>
              /\ o.thrown => o.result.isError
    /\ Done => /\ toolResult.text # <<>>
               /\ thrown => Flagged

\* a handler completed after the fetch itself failed
C8_Witness ==
    /\ Done
    /\ thrown
    /\ upstreamResponse.kind = "network"
    /\ Flagged
    /\ Tool = "get_markets"

\* C9 (as claimed): for every tool an upstream ApiError with status 429 is
\* rendered as the fixed rate-limit message whatever its details and message
\* are; an ApiError with status 404 that reaches the error renderer is
\* rendered with its details when it has any, otherwise with its message.
C9_Original ==
    (Done /\ caught.error.kind = "api") =>
      /\ caught.error.status = 429
            => toolResult.text = <<Lit("Rate limit exceeded. Please try again later.")>>
      /\ (caught.error.status = 404 /\ caught.rendered)
            => toolResult.text =
                 <<Lit("Not found: "),
                   Val(IF Truthy(caught.error.details) THEN caught.error.details
                       ELSE caught.error.message)>>

\* the five classes of an upstream API error
ErrorClass(status) ==
    CASE status = 404 -> "not-found"
      [] status \in {401, 403} -> "auth"
      [] status = 429 -> "rate-limited"
      [] status = 503 -> "unavailable"
      [] OTHER -> "generic"

\* C10 (as claimed): the wording returned for an upstream API error is
\* driven by its class: an error rendered by the shared renderer never has
\* the wording the renderer gives to an error of another class (so auth is
\* not worded like generic).
C10_Original ==
    (Done /\ caught.error.kind = "api" /\ caught.rendered) =>
        \A other \in ErrorStatuses :
            ErrorClass(other) # ErrorClass(caught.error.status)
                => toolResult.text[1] #
                     HandleApiError(ApiError(other, caught.error.message,
                                             caught.error.details)).text[1]

\* the upstream answered with a non-2xx status
UpstreamNon2xx == upstreamResponse.kind = "http" /\ ~ResponseOk(upstreamResponse)

\* the fetch failed, the status was non-2xx, or a 2xx body was not JSON
UpstreamFailure ==
    \/ upstreamResponse.kind = "network"
    \/ UpstreamNon2xx
    \/ (upstreamResponse.kind = "http" /\ upstreamResponse.shape = "unparsable")

\* C11: every non-2xx upstream response makes the API client raise an
\* ApiError carrying that response's status, also when the error body is not
\* parsable JSON, in which case the message is the HTTP status text; the
\* handler's catch block receives that error (get_ticker's 404 excepted,
\* which getTicker absorbs); isNotFound holds iff the status is 404,
\* isAuthError iff 401 or 403, isRateLimitError iff 429, isUnavailable iff
\* 503, at most one of them holds and none for any other status.
C11_StatusClassified ==
    (Done /\ UpstreamNon2xx) =>
        LET r == ClientRequest(upstreamResponse)
            e == r.error
            status == upstreamResponse.status
            holding == {p \in {"notFound", "auth", "rateLimit", "unavailable"} :
                           \/ p = "notFound" /\ IsNotFound(e)
                           \/ p = "auth" /\ IsAuthError(e)
                           \/ p = "rateLimit" /\ IsRateLimitError(e)
                           \/ p = "unavailable" /\ IsUnavailable(e)}
        IN
        /\ r.threw
        /\ e.kind = "api"
        /\ e.status = status
        /\ upstreamResponse.shape # "errorbody"
              => e.message = Str(upstreamResponse.statusText) /\ e.details = Undef
        /\ (Tool = "get_ticker" /\ status = 404) \/ (thrown /\ caught.error = e)
        /\ IsNotFound(e) <=> status = 404
        /\ IsAuthError(e) <=> status \in {401, 403}
        /\ IsRateLimitError(e) <=> status = 429
        /\ IsUnavailable(e) <=> status = 503
        /\ Cardinality(holding) <= 1
        /\ status \notin {401, 403, 404, 429, 503} => holding = {}

\* a handler caught the ApiError of a 403 whose body was not JSON
C11_Witness ==
    /\ Done
    /\ UpstreamNon2xx
    /\ upstreamResponse.status = 403
    /\ upstreamResponse.shape = "unparsable"
    /\ upstreamResponse.statusText = <<"s">>
    /\ caught.error = ApiError(403, Str(<<"s">>), Undef)

\* C12: getTicker turns an upstream failure into an absent ticker only when
\* it is a 404; for every other failure (another non-2xx status, a failed
\* fetch, an unparsable body) it raises the error the request raised,
\* unchanged, and the caller's catch block receives it.
C12_OnlyNotFoundAbsent ==
    (Done /\ Tool = "get_ticker" /\ UpstreamFailure) =>
        LET r == GetTicker(upstreamResponse) IN
        IF Upstream404
        THEN r = Returned("null") /\ ~thrown
        ELSE /\ r.threw
             /\ r.error = ClientRequest(upstreamResponse).error
             /\ thrown
             /\ caught.error = r.error
             /\ toolResult.text[1] # Lit("Ticker not found for ")

\* get_ticker finished after an upstream 503: the error was raised
C12_Witness ==
    /\ Done
    /\ Tool = "get_ticker"
    /\ upstreamResponse.status = 503
    /\ thrown
    /\ caught.error.status = 503

----------------------------------------------------------------------------
(* Claims about symbol normalization (SymbolSpec) *)

\* the symbol has the form X/Y with no other separator
WellFormed(symbol) ==
    /\ Cardinality({i \in 1..Len(symbol) : symbol[i] = "/"}) = 1
    /\ \A i \in 1..Len(symbol) : symbol[i] # "-"

\* X-Y for a symbol X/Y
Dashed(symbol) ==
    LET i == CHOOSE k \in 1..Len(symbol) : symbol[k] = "/" IN
    SubSeq(symbol, 1, i - 1) \o <<"-">> \o SubSeq(symbol, i + 1, Len(symbol))

\* C13: for every symbol of the form X/Y with no other separator, the URL
\* form the client builds is X-Y, and converting that URL form back the way
\* the resource reader does yields the symbol again.
C13_RoundTrip ==
    (norm.pc # "idle" /\ WellFormed(norm.symbol)) =>
        /\ norm.url = Dashed(norm.symbol)
        /\ norm.pc = "back" => norm.back = norm.symbol

\* B/U went to B-U and came back as B/U
C13_Witness ==
    /\ norm.pc = "back"
    /\ norm.symbol = <<"B", "/", "U">>
    /\ norm.url = <<"B", "-", "U">>
    /\ norm.back = <<"B", "/", "U">>

----------------------------------------------------------------------------
(* Claims about the protocol server (ServerSpec) *)

\* C14: every upstream request issued carries the Authorization header
\* (Bearer and the client's API key), except the requests to /v1/exchanges,
\* which never carry it; this holds for the requests of every tool, prompt
\* and resource read.
C14_AuthHeader ==
    /\ \A i \in 1..Len(upstreamLog) :
           upstreamLog[i].auth <=> upstreamLog[i].endpoint # "/v1/exchanges"
    /\ toolPc = "fetching" =>
           /\ pending = upstreamLog[Len(upstreamLog)]
           /\ pending.endpoint \in {"/v1/ticker", "/v1/tickers", "/v1/history",
                                    "/v1/markets", "/v1/exchanges"}
           /\ Len(client.configs) > 0
           /\ \A k \in 1..Len(client.configs) : client.configs[k].apiKey = EnvApiKey

\* the exchanges resource is being fetched without the header, by a client
\* built after a reset
C14_Witness ==
    /\ toolPc = "fetching"
    /\ Tool = "luzia://exchanges"
    /\ pending.endpoint = "/v1/exchanges"
    /\ ~pending.auth
    /\ client.instance = 2

\* the handler the tools index exports for a tool name
HandlerOfTool(name) ==
    CASE name = "get_ticker" -> "executeGetTicker"
      [] name = "get_tickers" -> "executeGetTickers"
      [] name = "get_history" -> "executeGetHistory"
      [] name = "get_exchanges" -> "executeGetExchanges"
      [] name = "get_markets" -> "executeGetMarkets"
      [] OTHER -> "default"

\* C15 (as claimed): a call-tool request naming any of get_ticker,
\* get_tickers, get_history, get_exchanges, get_markets is routed to that
\* tool's handler, and a list-tools request returns all five tools.
C15_Original ==
    /\ (rpc.method = "tools/call"
        /\ rpc.name \in {"get_ticker", "get_tickers", "get_history", "get_exchanges",
                         "get_markets"})
          => rpc.routed = HandlerOfTool(rpc.name)
    /\ rpc.method = "tools/list"
          => rpc.listed = {"get_ticker", "get_tickers", "get_history", "get_exchanges",
                           "get_markets"}

\* the generator the prompts index exports for a prompt name
GeneratorOfPrompt(name) ==
    CASE name = "analyze_price_movement" -> "generateAnalyzePricePrompt"
      [] name = "analyze_ohlcv" -> "generateAnalyzeOhlcvPrompt"
      [] name = "compare_exchanges" -> "generateCompareExchangesPrompt"
      [] OTHER -> "default"

\* C16 (as claimed): a get-prompt request naming any of
\* analyze_price_movement, analyze_ohlcv, compare_exchanges is routed to that
\* prompt's generator, and a list-prompts request returns all three prompts.
C16_Original ==
    /\ (rpc.method = "prompts/get"
        /\ rpc.name \in {"analyze_price_movement", "analyze_ohlcv", "compare_exchanges"})
          => rpc.routed = GeneratorOfPrompt(rpc.name)
    /\ rpc.method = "prompts/list"
          => rpc.listed = {"analyze_price_movement", "analyze_ohlcv",
                           "compare_exchanges"}

\* a call-tool request named a tool that list-tools does not return
UnknownToolCalled ==
    /\ rpc.method = "tools/call"
    /\ rpc.name \notin {"get_ticker", "get_tickers", "get_exchanges", "get_markets"}

\* a get-prompt request named a prompt that list-prompts does not return
UnknownPromptCalled ==
    /\ rpc.method = "prompts/get"
    /\ rpc.name \notin {"analyze_price_movement", "compare_exchanges"}

\* the request completed at once: nothing was raised, nothing was fetched
CompletedAtOnce ==
    /\ Done
    /\ ~thrown
    /\ upstreamLog = <<>>
    /\ pending = NoRequest

\* C17 (as claimed): a call-tool request with an unregistered name and a
\* get-prompt request with an unregistered name each complete without
\* raising and without an upstream request, and each return a response
\* flagged as an error whose text names the unknown tool or prompt.
C17_Original ==
    /\ UnknownToolCalled =>
          /\ CompletedAtOnce
          /\ Flagged
          /\ toolResult.text = <<Lit("Unknown tool: "), Lit(rpc.name)>>
    /\ UnknownPromptCalled =>
          /\ CompletedAtOnce
          /\ Flagged
          /\ toolResult.text = <<Lit("Unknown prompt: "), Lit(rpc.name)>>

\* C17 (amended): as above, except that the response to the get-prompt
\* request is a user text message without an error flag.
C17_UnknownNames ==
    /\ UnknownToolCalled =>
          /\ CompletedAtOnce
          /\ Flagged
          /\ toolResult.text = <<Lit("Unknown tool: "), Lit(rpc.name)>>
    /\ UnknownPromptCalled =>
          /\ CompletedAtOnce
          /\ ~Flagged
          /\ toolResult.text = <<Lit("Unknown prompt: "), Lit(rpc.name)>>

\* a get-prompt request for the prompt "nope" was answered
C17_Witness ==
    /\ UnknownPromptCalled
    /\ rpc.name = "nope"
    /\ Done
    /\ toolResult.text = <<Lit("Unknown prompt: "), Lit("nope")>>

\* the upstream answered 2xx with a body that holds the expected fields
UpstreamUsable ==
    /\ upstreamResponse.kind = "http"
    /\ ResponseOk(upstreamResponse)
    /\ upstreamResponse.shape \in {"empty", "full"}

\* the uris of the model that have the shape luzia://ticker/{exchange}/{symbol}
TickerShaped ==
    {TickerUriHead \o <<"B","n","/","b","-","u">>,
     TickerUriHead \o <<"B","n","/","b","u">>,
     TickerUriHead \o <<"B","n","/","b","-","u","-","x">>}

\* what the handler of the current resource read returns when the upstream
\* answers response
FinishResource(response) ==
    IF Tool = "luzia://exchanges" THEN FinishReadExchanges(response)
    ELSE FinishReadTicker(toolCall.args, response)

\* C18: a read-resource request never raises: whatever the upstream
\* answers, the handler returns a text body.  The exchanges uri returns the
\* live exchange ids, or the list binance, coinbase, kraken when the fetch
\* fails in any way; a ticker/{exchange}/{symbol} uri returns the ticker, a
\* not-found text or an error text; every other uri returns the text
\* 'Unknown resource: ' and the uri, and issues no upstream request.
C18_ResourceReads ==
    rpc.method = "resources/read" =>
      /\ toolPc # "idle"
      /\ toolPc = "fetching" =>
            /\ rpc.uri = <<"l","u","z","i","a",":","/","/","e","x","c","h","a","n","g","e","s">>
               \/ rpc.uri \in TickerShaped
            /\ \A response \in Responses : FinishResource(response).result.text # <<>>
      /\ (Done /\ rpc.uri = <<"l","u","z","i","a",":","/","/","e","x","c","h","a","n","g","e","s">>) =>
            /\ Len(upstreamLog) = 1
            /\ ~Flagged
            /\ IF UpstreamUsable
               THEN toolResult.text = LiveExchanges(upstreamResponse.shape)
               ELSE toolResult.text = <<Lit("exchanges"), Lit("binance"),
                                        Lit("coinbase"), Lit("kraken")>>
      /\ (Done /\ rpc.uri \in TickerShaped) =>
            /\ Len(upstreamLog) = 1
            /\ ~Flagged
            /\ toolResult.text[1] =
                 (IF Upstream404 \/ (ResponseOk(upstreamResponse)
                                     /\ upstreamResponse.shape = "null")
                  THEN Lit("Ticker not found for ")
                  ELSE IF UpstreamFailure THEN Lit("Error fetching ticker for ")
                  ELSE Lit("ticker"))
      /\ (rpc.uri # <<"l","u","z","i","a",":","/","/","e","x","c","h","a","n","g","e","s">>
          /\ rpc.uri \notin TickerShaped) =>
            /\ CompletedAtOnce
            /\ ~Flagged
            /\ toolResult.text = <<Lit("Unknown resource: "), Val(Str(rpc.uri))>>

\* the exchanges resource was read while the upstream was unreachable
C18_Witness ==
    /\ rpc.method = "resources/read"
    /\ Done
    /\ Tool = "luzia://exchanges"
    /\ upstreamResponse.kind = "network"
    /\ toolResult.text = FallbackExchanges

\* a handler (not a default branch of a dispatcher) is running or has run
HandlerRan == toolPc # "idle" /\ rpc.routed # "default" /\ Tool # "none"

\* the API-client method calls the current handler makes when nothing fails
ClientCalls ==
    IF Tool = "compare_exchanges" THEN Len(compare.exchangeList) ELSE 1

\* the awaited client method raises on response
Raises(response) ==
    IF Tool \in {"get_ticker", "analyze_price_movement", "compare_exchanges",
                 "luzia://ticker"}
    THEN GetTicker(response).threw
    ELSE IF Tool \in {"get_exchanges", "luzia://exchanges"}
    THEN GetExchanges(response).threw
    ELSE ClientRequest(response).threw

\* the step in which an awaited client method settles
Settles == toolPc = "fetching" /\ (toolPc' = "done" \/ compare' # compare)

C19_Bounded ==
    /\ Len(upstreamLog) <= ClientCalls
    /\ (Done /\ HandlerRan /\ Tool \in ToolNames /\ caught.error.kind # "zod")
          => Len(upstreamLog) = 1
    /\ (HandlerRan /\ Tool = "compare_exchanges") =>
          \A i \in 1..Len(upstreamLog) :
              upstreamLog[i].exchange = Str(ToLowerCase(compare.exchangeList[i]))

C19_FailureEnds ==
    Settles =>
      /\ Raises(upstreamResponse') =>
            /\ toolPc' = "done"
            /\ thrown'
            /\ upstreamLog' = upstreamLog
      /\ upstreamLog' # upstreamLog =>
            /\ Len(upstreamLog') = Len(upstreamLog) + 1
            /\ Tool = "compare_exchanges"

C20_OnePerReset ==
    /\ Cardinality(client.returned) <= 1
    /\ client.built <= 1
    /\ client.returned \subseteq {client.instance}
    /\ client.instance \notin client.discarded
    /\ client.instance \in 0..Len(client.configs)

C20_FreshAndFrozen ==
    /\ (client.instance = NoClient /\ client'.instance # NoClient) =>
          /\ Len(client'.configs) = Len(client.configs) + 1
          /\ client'.instance = Len(client'.configs)
          /\ client'.instance \notin client.discarded
    /\ (client.instance # NoClient /\ client'.instance # NoClient) =>
          /\ client'.instance = client.instance
          /\ client'.configs = client.configs
    /\ \A k \in 1..Len(client.configs) :
          /\ k <= Len(client'.configs)
          /\ client'.configs[k] = client.configs[k]

\* C20: between two resets (or before the first) every getApiClient call
\* returns the same client and at most one client is constructed; the first
\* getApiClient after a reset constructs a client that is none of the
\* discarded ones; and the base URL and API key of a constructed client
\* never change.
C20_Singleton == []C20_OnePerReset /\ [][C20_FreshAndFrozen]_vars

\* a second client was built after the first was reset away
C20_Witness ==
    /\ Len(client.configs) = 2
    /\ client.instance = 2
    /\ client.discarded = {1}
    /\ client.returned = {2}
    /\ client.configs[1] = [baseUrl |-> <<"h">>, apiKey |-> <<"k">>]

----------------------------------------------------------------------------
(* compare_exchanges: the spread *)

\* position of the first literal piece `label` in a text
IndexOf(text, label) ==
    CHOOSE i \in 1..Len(text) :
        /\ text[i].k = "lit" /\ text[i].lit = label
        /\ \A j \in 1..(i - 1) : ~(text[j].k = "lit" /\ text[j].lit = label)

\* the tickers with a usable last price, by position
Usable(tickers) ==
    {i \in 1..Len(tickers) : tickers[i].available /\ tickers[i].last.type = "number"}

Compared == calc.fn = "compare_exchanges"

\* C21: when at least one exchange returned a usable last price, the spread
\* analysis reports the minimum and the maximum of the usable prices, their
\* difference, the difference as a percentage of the minimum, and for each
\* extreme the first exchange in list order that attains it; every exchange
\* has its table row, marked unavailable exactly when its ticker is absent,
\* and the reported values depend on the usable prices only.
C21_Spread ==
    (Compared /\ Usable(calc.tickers) # {}) =>
        LET t == calc.tickers
            text == calc.text
            usable == Usable(t)
            lowest == CHOOSE p \in {t[i].last.n : i \in usable} :
                          \A i \in usable : p <= t[i].last.n
            highest == CHOOSE p \in {t[i].last.n : i \in usable} :
                           \A i \in usable : p >= t[i].last.n
            firstLowest == CHOOSE i \in usable :
                               /\ t[i].last.n = lowest
                               /\ \A j \in usable : t[j].last.n = lowest => i <= j
            firstHighest == CHOOSE i \in usable :
                                /\ t[i].last.n = highest
                                /\ \A j \in usable : t[j].last.n = highest => i <= j
            low == IndexOf(text, "- **Lowest Price**: ")
            high == IndexOf(text, "- **Highest Price**: ")
            diff == IndexOf(text, "- **Price Difference**: ")
        IN /\ text[low + 1].v = JsNumber("finite", lowest, 1)
           /\ text[low + 3].v.s = ToUpperCase(t[firstLowest].exchange)
           /\ text[high + 1].v = JsNumber("finite", highest, 1)
           /\ text[high + 3].v.s = ToUpperCase(t[firstHighest].exchange)
           /\ text[diff + 1].v = JsNumber("finite", highest - lowest, 1)
           /\ text[diff + 3].v.k = "finite"
           /\ text[diff + 3].v.n * lowest = (highest - lowest) * 100 * text[diff + 3].v.d
           /\ low = 3 + 4 * Len(t) + 2
           /\ \A i \in 1..Len(t) :
                 /\ text[4 * i + 1].v.s = ToUpperCase(t[i].exchange)
                 /\ text[4 * i + 2].lit = (IF t[i].available THEN "available"
                                           ELSE "unavailable")
                 /\ (text[4 * i + 3].lit = "N/A") <=> (i \notin usable)

\* the first exchange has 1, the second has 3, the third is absent: 1 on the
\* first, 3 on the second, a difference of 2, 200%
C21_Witness ==
    /\ Compared
    /\ Len(calc.tickers) = 3
    /\ calc.tickers[1].last = Num(1)
    /\ calc.tickers[2].last = Num(3)
    /\ ~calc.tickers[3].available
    /\ LET low == IndexOf(calc.text, "- **Lowest Price**: ") IN
       /\ calc.text[low + 1].v = JsNumber("finite", 1, 1)
       /\ calc.text[low + 3].v.s = <<"B">>
       /\ calc.text[low + 5].v = JsNumber("finite", 3, 1)
       /\ calc.text[low + 7].v.s = <<"B", "B">>
       /\ calc.text[low + 9].v = JsNumber("finite", 2, 1)
       /\ calc.text[low + 11].v = JsNumber("finite", 200, 1)
       /\ calc.text[4 * 3 + 2].lit = "unavailable"

----------------------------------------------------------------------------
(* analyze_ohlcv: the summary statistics *)

RECURSIVE SumOfVolumes(_)
SumOfVolumes(candles) ==
    IF candles = <<>> THEN 0 ELSE Head(candles).volume + SumOfVolumes(Tail(candles))

Analyzed == calc.fn = "analyze_ohlcv" /\ calc.candles # <<>>

\* C22: over a non-empty candle series the analysis reports the change from
\* the first open to the last close as a percentage of the first open, the
\* first candle with the maximum high and the first with the minimum low,
\* the total volume and the total divided by the count, the number of
\* candles whose volume is strictly more than twice that average, and the
\* numbers of candles with close >= open and with close < open, which add up
\* to the count.
C22_Statistics ==
    Analyzed =>
        LET c == calc.candles
            n == Len(c)
            text == calc.text
            at(label) == text[IndexOf(text, label) + 1].v
            change == at("- **Period Change:** ")
            high == IndexOf(text, "- **Period High:** ")
            low == IndexOf(text, "- **Period Low:** ")
            average == at("- **Average Volume/Candle:** ")
            bullish == at("- **Bullish Candles:** ")
            bearish == at("- **Bearish Candles:** ")
            firstHigh == CHOOSE i \in 1..n :
                             /\ \A j \in 1..n : c[j].high <= c[i].high
                             /\ \A j \in 1..(i - 1) : c[j].high < c[i].high
            firstLow == CHOOSE i \in 1..n :
                            /\ \A j \in 1..n : c[j].low >= c[i].low
                            /\ \A j \in 1..(i - 1) : c[j].low > c[i].low
        IN /\ change.k = "finite"
           /\ change.n * c[1].open = (c[n].close - c[1].open) * 100 * change.d
           /\ text[high + 1].v = JsNumber("finite", c[firstHigh].high, 1)
           /\ text[high + 3].v = JsNumber("finite", c[firstHigh].timestamp, 1)
           /\ text[low + 1].v = JsNumber("finite", c[firstLow].low, 1)
           /\ text[low + 3].v = JsNumber("finite", c[firstLow].timestamp, 1)
           /\ at("- **Total Volume:** ") = JsNumber("finite", SumOfVolumes(c), 1)
           /\ average.k = "finite"
           /\ average.n * n = SumOfVolumes(c) * average.d
           /\ at("- **Volume Spikes (>2x avg):** ").n =
                  Cardinality({i \in 1..n : c[i].volume * average.d > 2 * average.n})
           /\ bullish.n = Cardinality({i \in 1..n : c[i].close >= c[i].open})
           /\ bearish.n = Cardinality({i \in 1..n : c[i].close < c[i].open})
           /\ bullish.n + bearish.n = n

\* opens/closes (10,12), (12,11), (11,15) with volumes 100, 100, 500: 50%,
\* an average of 700/3, one spike, two bullish candles and one bearish
C22_Witness ==
    /\ Analyzed
    /\ Len(calc.candles) = 3
    /\ \A i \in 1..3 :
          /\ calc.candles[i].open = <<10, 12, 11>>[i]
          /\ calc.candles[i].close = <<12, 11, 15>>[i]
          /\ calc.candles[i].volume = <<100, 100, 500>>[i]
    /\ LET at(label) == calc.text[IndexOf(calc.text, label) + 1].v IN
       /\ at("- **Period Change:** ").n = 50 * at("- **Period Change:** ").d
       /\ at("- **Average Volume/Candle:** ").n * 3 = 700 * at("- **Average Volume/Candle:** ").d
       /\ at("- **Volume Spikes (>2x avg):** ").n = 1
       /\ at("- **Bullish Candles:** ").n = 2
       /\ at("- **Bearish Candles:** ").n = 1

----------------------------------------------------------------------------
(* Candle intervals *)

\* C23 (as claimed): get_history and analyze_ohlcv accept an interval only
\* from 1m, 5m, 15m, 1h, 1d: a call whose interval is any other value, 4h
\* included, fails validation and issues no upstream request.
C23_Original ==
    (/\ toolPc # "idle"
     /\ Tool \in {"get_history", "analyze_ohlcv"}
     /\ toolCall.args.present
     /\ toolCall.args.interval.type = "string"
     /\ toolCall.args.interval.s \notin
            {<<"1","m">>, <<"5","m">>, <<"1","5","m">>, <<"1","h">>, <<"1","d">>})
    => /\ toolPc = "done"
       /\ upstreamLog = <<>>
       /\ caught.error.kind = "zod"

----------------------------------------------------------------------------
(* Prompt generators: totality *)

\* a prompt generator is running or has returned
GeneratorRan == HandlerRan /\ Tool \in PromptNames

\* the text begins with the literal piece `head`
BeginsWith(text, head) == text # <<>> /\ text[1].k = "lit" /\ text[1].lit = head

ErrorHead ==
    CASE Tool = "analyze_price_movement" -> "Error generating analysis: "
      [] Tool = "analyze_ohlcv" -> "Error generating OHLCV analysis: "
      [] OTHER -> "Error generating comparison: "

\* C24: every prompt generator returns one user text message whatever its
\* arguments and whatever the upstream answers: a generator awaiting the
\* upstream returns a message for every answer; a returned message has a
\* text and no error flag; after a validation failure or a failed upstream
\* call the text is the generator's error prefix followed by a description;
\* an absent ticker (no ticker on any exchange, for compare_exchanges) or an
\* empty candle series gives the 'Unable to fetch' message.
C24_Total ==
    /\ (GeneratorRan /\ toolPc = "fetching") =>
          \A response \in Responses :
              LET o == CASE Tool = "analyze_price_movement" ->
                              FinishAnalyzePrice(toolCall.args, response)
                         [] Tool = "analyze_ohlcv" ->
                              FinishAnalyzeOhlcv(toolCall.args, response)
                         [] OTHER ->
                              IF GetTicker(response).threw
                              THEN PromptCatch(GetTicker(response).error, ErrorHead)
                              ELSE FinishCompareExchanges(
                                       toolCall.args, compare.exchangeList,
                                       [i \in 1..Len(compare.exchangeList) |->
                                           [exchange |-> compare.exchangeList[i],
                                            last |-> Null, available |-> FALSE]])
              IN o.result.text # <<>> /\ ~o.result.isError
    /\ (GeneratorRan /\ Done) =>
          /\ toolResult.text # <<>>
          /\ ~Flagged
          /\ (caught.error.kind = "zod" \/ Raises(upstreamResponse)) =>
                /\ thrown
                /\ BeginsWith(toolResult.text, ErrorHead)
                /\ Len(toolResult.text) >= 2
          /\ thrown => BeginsWith(toolResult.text, ErrorHead)
          /\ (/\ ~thrown
              /\ Tool = "analyze_price_movement"
              /\ GetTicker(upstreamResponse).value = "null") =>
                BeginsWith(toolResult.text, "Unable to fetch data for ")
          /\ (/\ ~thrown
              /\ Tool = "analyze_ohlcv"
              /\ upstreamResponse.shape \in {"object", "empty"}) =>
                BeginsWith(toolResult.text, "Unable to fetch OHLCV data for ")
          /\ (/\ ~thrown
              /\ Tool = "compare_exchanges"
              /\ \A i \in 1..Len(compare.tickerResults) :
                    ~compare.tickerResults[i].available) =>
                BeginsWith(toolResult.text, "Unable to fetch ")

\* compare_exchanges returned after the upstream answered 500 for the
\* second exchange
C24_Witness ==
    /\ GeneratorRan
    /\ Done
    /\ Tool = "compare_exchanges"
    /\ thrown
    /\ upstreamResponse.status = 500
    /\ Len(upstreamLog) = 2
    /\ BeginsWith(toolResult.text, "Error generating comparison: ")
    /\ ~Flagged

----------------------------------------------------------------------------
(* Limits *)

\* C25: the upstream request of get_tickers, get_markets and get_history
\* carries the limit the caller gave (a request is only issued for a limit
\* within the tool's range: 1..50, 1..100, 1..500); when the caller gave
\* none, get_tickers sends 20, get_markets sends 50 and get_history sends
\* no limit.
C25_LimitForwarded ==
    (Tool \in {"get_tickers", "get_markets", "get_history"} /\ upstreamLog # <<>>) =>
        LET given == toolCall.args.limit
            sent == upstreamLog[1].query.limit
        IN /\ given.type = "number" =>
                 /\ sent = given
                 /\ given.n >= 1
                 /\ given.n <= (CASE Tool = "get_tickers" -> 50
                                  [] Tool = "get_markets" -> 100
                                  [] OTHER -> 500)
           /\ given.type = "undefined" =>
                 sent = (CASE Tool = "get_tickers" -> Num(20)
                           [] Tool = "get_markets" -> Num(50)
                           [] OTHER -> Undef)
           /\ given.type \in {"number", "undefined"}

\* get_markets without a limit is awaiting a request with limit 50
C25_Witness ==
    /\ toolPc = "fetching"
    /\ Tool = "get_markets"
    /\ toolCall.args.limit = Undef
    /\ pending.query.limit = Num(50)
    /\ pending.endpoint = "/v1/markets"

----------------------------------------------------------------------------
(* compare_exchanges: the order of the fetches *)

Comparing == HandlerRan /\ Tool = "compare_exchanges" /\ caught.error.kind # "zod"

\* C26 (state part): the exchange list is the provided comma-separated list
\* (split, trimmed, lower-cased) or binance, coinbase, kraken; the i-th
\* request of the call is for the i-th exchange of the list; while a fetch
\* is awaited it is the only one without a result, and every earlier fetch
\* has its result.
C26_InOrder ==
    Comparing =>
        /\ ~Truthy(compare.arg) =>
              compare.exchangeList =
                  << <<"b","i","n","a","n","c","e">>, <<"c","o","i","n","b","a","s","e">>,
                     <<"k","r","a","k","e","n">> >>
        /\ compare.arg = Str(<<"B", ",", " ", "n">>) =>
              compare.exchangeList = << <<"b">>, <<"n">> >>
        /\ compare.arg = Str(<<"b", ",", "b">>) =>
              compare.exchangeList = << <<"b">>, <<"b">> >>
        /\ Len(upstreamLog) <= Len(compare.exchangeList)
        /\ \A i \in 1..Len(upstreamLog) :
              /\ upstreamLog[i].endpoint = "/v1/ticker"
              /\ upstreamLog[i].exchange = Str(compare.exchangeList[i])
        /\ \A i \in 1..Len(compare.tickerResults) :
              compare.tickerResults[i].exchange = compare.exchangeList[i]
        /\ toolPc = "fetching" =>
              /\ Len(upstreamLog) = Len(compare.tickerResults) + 1
              /\ pending = upstreamLog[Len(upstreamLog)]
        /\ (Done /\ ~thrown) =>
              /\ Len(upstreamLog) = Len(compare.exchangeList)
              /\ Len(compare.tickerResults) = Len(compare.exchangeList)

\* C26 (step part): a step issues at most one request, and only when the
\* awaited fetch has returned; a fetch that raises ends the call in that
\* step with an error message and no further request.
C26_OneAtATime ==
    (Comparing /\ toolPc = "fetching") =>
        /\ Len(upstreamLog') <= Len(upstreamLog) + 1
        /\ Len(upstreamLog') = Len(upstreamLog) + 1 =>
              /\ ~Raises(upstreamResponse')
              /\ Len(compare'.tickerResults) = Len(compare.tickerResults) + 1
        /\ (upstreamResponse' # upstreamResponse /\ Raises(upstreamResponse')) =>
              /\ toolPc' = "done"
              /\ upstreamLog' = upstreamLog
              /\ thrown'
              /\ BeginsWith(toolResult'.text, "Error generating comparison: ")

----------------------------------------------------------------------------
(* compare_exchanges without a usable price *)

\* C27 as stated: when no ticker result has a usable last price the
\* generator answers 'Unable to fetch ...' and its text has no spread
\* analysis.
C27_Original ==
    (Compared /\ Usable(calc.tickers) = {}) =>
        /\ BeginsWith(calc.text, "Unable to fetch ")
        /\ \A i \in 1..Len(calc.text) :
              ~(calc.text[i].k = "lit" /\ calc.text[i].lit = "## Price Spread Analysis")

----------------------------------------------------------------------------
(* Concurrent /mcp requests *)

\* the transports held in the map
Registered == {sessions[id] : id \in DOMAIN sessions}

C28_OwnEntries ==
    /\ \A id \in DOMAIN sessions : tSessionId[sessions[id]] = id
    /\ \A t \in 1..nTransports : tSessionId[t] = NoSessionId => t \notin Registered

C28_InsertsOwn ==
    \A id \in (DOMAIN sessions') \ (DOMAIN sessions) :
        \E r \in Slots :
            /\ Handled(r)
            /\ req[r].kind = "initialize"
            /\ sessions'[id] = req[r].transport
            /\ tSessionId[req[r].transport] = NoSessionId
            /\ tSessionId'[req[r].transport] = id
            /\ \A k \in DOMAIN sessions : k \in DOMAIN sessions' /\ sessions'[k] = sessions[k]

\* C28: under every interleaving of the in-flight /mcp requests, each entry
\* id -> t of the map has t as the transport that generated id, a transport
\* that was never initialized is not in the map, and a step that inserts an
\* entry inserts the transport of the request being handled under the id
\* that transport just generated, leaving the other entries alone.
C28_NoCrossRegistration == []C28_OwnEntries /\ [][C28_InsertsOwn]_vars

\* the request that constructed transport 1 is still in flight, not yet
\* initialized, while transport 2, constructed after it, is already
\* registered under its id
C28_Witness ==
    /\ \E r \in Slots : /\ req[r].pc \in {"connecting", "handling"}
                        /\ req[r].transport = 1
                        /\ ~req[r].hit
    /\ tSessionId[1] = NoSessionId
    /\ tSessionId[2] # NoSessionId
    /\ DOMAIN sessions = {tSessionId[2]}
    /\ sessions[tSessionId[2]] = 2

----------------------------------------------------------------------------
(* /health *)

\* the sessions whose session-initialized callback has run and whose
\* session-closed callback has not
OpenSessions ==
    {tSessionId[t] : t \in {u \in 1..nTransports : tSessionId[u] # NoSessionId}} \ closedIds

\* C29: the activeSessions value of /health is the number of sessions that
\* were initialized and not closed; a transport that never completed
\* initialization is not counted.
C29_ActiveSessions ==
    /\ Health.activeSessions = Cardinality(OpenSessions)
    /\ Health.activeSessions <=
           Cardinality({t \in 1..nTransports : tSessionId[t] # NoSessionId})

\* two transports were constructed, one session is open, the other
\* transport never initialized: /health reports 1
C29_Witness ==
    /\ nTransports = 2
    /\ Cardinality({t \in 1..nTransports : tSessionId[t] = NoSessionId}) = 1
    /\ closedIds = {}
    /\ Health.activeSessions = 1

----------------------------------------------------------------------------
(* The three enumerations of the MCP surface *)

\* C30: the names list-tools returns, the names the call-tool dispatcher
\* routes to a handler and the tools list of the info endpoint are the same
\* set, and so are the names of list-prompts, the get-prompt dispatcher and
\* the prompts list of the info endpoint: a call answers 'Unknown ...'
\* exactly when its name is outside that set.
C30_Agree ==
    /\ \A name \in ToolNames \cup {"nope"} :
           ToolRoute(name) # "default" <=> name \in Info.tools
    /\ \A name \in PromptNames \cup {"nope"} :
           PromptRoute(name) # "default" <=> name \in Info.prompts
    /\ rpc.method = "tools/list" => rpc.listed = Info.tools
    /\ rpc.method = "prompts/list" => rpc.listed = Info.prompts
    /\ rpc.method = "tools/call" =>
           /\ rpc.routed # "default" <=> rpc.name \in Info.tools
           /\ (Done /\ Tool = rpc.name) => (BeginsWith(toolResult.text, "Unknown tool: ")
                           <=> rpc.name \notin Info.tools)
    /\ rpc.method = "prompts/get" =>
           /\ rpc.routed # "default" <=> rpc.name \in Info.prompts
           /\ (Done /\ Tool = rpc.name) => (BeginsWith(toolResult.text, "Unknown prompt: ")
                           <=> rpc.name \notin Info.prompts)

\* list-tools answered: the names it returned are the info endpoint's and
\* each of them is routed to a handler
C30_Witness ==
    /\ rpc.method = "tools/list"
    /\ Done
    /\ rpc.listed = Info.tools
    /\ \A name \in rpc.listed : ToolRoute(name) # "default"

====
